---- MODULE Spec2Model ----
(***************************************************************************)
(* A model of the nsbmd codec: the matrix-stack executor over the render   *)
(* command list, the vertex-position extractor over the GPU command list,  *)
(* and the offset/rebase algebra of Container, Mdl, Model and its          *)
(* sections.  Each subsystem has its own specification (SpecExec, SpecVtx, *)
(* SpecRebase); the variables of the other subsystems stay at their        *)
(* initial value.                                                          *)
(*                                                                         *)
(* Conventions.  Option<T> is a sequence of length 0 (None) or 1 (Some).   *)
(* A 4x4 Matrix is its row-major data vector, a sequence of 16 numbers.    *)
(* f32 values are integers: the fixed-point inputs of the model are chosen *)
(* so that every f32 product and sum of the code is exact.                 *)
(***************************************************************************)
EXTENDS Integers, Sequences, FiniteSets, TLC

VARIABLES
    \* ModelRenderCmdExecutor and the lists it borrows
    render_cmds,             \* RenderCommandList.render_commands
    bone_list,               \* BoneList (bones NameList names + bone_matrices)
    matrix_stack,            \* ModelRenderCmdExecutor.matrix_stack
    current_matrix,          \* ModelRenderCmdExecutor.current_matrix
    loaded_bones_in_matrix,  \* ModelRenderCmdExecutor.loaded_bones_in_matrix
    x_phase,                 \* "build" | "ready" | "running" | "returned"
    x_mode,                  \* "execute" | "until_draw": the call in progress
    x_pos,                   \* position of the iterator of the call (1-based)
    x_result,                \* "none" | "ok" | "err" | "err_no_draw" | "panic"
    x_trace,                 \* positions whose command execute_command ran, this call
    x_calls,                 \* calls made on this executor
    x_last,                  \* the last execute_command: command, state before, outcome
    \* MeshRenderCmdVertexPosExtractor and the list it borrows
    gpu_cmds,                \* GpuCommandList.render_cmds
    current_vertex,          \* MeshRenderCmdVertexPosExtractor.current_vertex
    vertices,                \* MeshRenderCmdVertexPosExtractor.vertices
    is_in_vtx_group,         \* MeshRenderCmdVertexPosExtractor.is_in_vtx_group
    v_phase,                 \* "build" | "ready" | "returned"
    v_result,                \* "none" | "ok" | "err": result of the last execute()
    v_calls,                 \* execute() calls made on this extractor
    v_start,                 \* the extractor's state when the last execute() began
    v_hist,                  \* the state after each command of the last execute()
    \* Container and the history of the operations made on it
    container,               \* Container: header.filesize, subfile_offsets, files
    r_op,                    \* the last operation: kind and the MDL/model it was called on
    r_twice,                 \* the last operation repeated the rebase right before it
    r_before,                \* the container before the last operation, when r_twice
    r_dirty,                 \* models edited since the last rebase that reached them
    r_edits,                 \* edits made so far
    \* One Mesh, the buffer it is decoded from and what it is encoded to
    m_mesh,                  \* Mesh: header fields and render_cmds_list
    m_bytes,                 \* the bytes handed to Mesh::from_bytes
    m_phase,                 \* "bytes" | "failed" | "live"
    m_result,                \* result of Mesh::from_bytes: "none" | "ok" | "err" | "panic"
    m_fresh,                 \* no edit since from_bytes
    m_rebased,               \* no edit since the last rebase()
    m_edits,                 \* edits made so far
    m_written,               \* result of the last Mesh::write_bytes, and the buffer
    m_reread,                \* GpuCommandList::from_bytes of the command bytes written
    \* One render command stream, decoded and encoded again
    rc_bytes,                \* the bytes handed to RenderCommandList::from_bytes
    rc_list,                 \* the outcome of from_bytes, with the list
    rc_written,              \* the outcome of write_bytes of that list, with the buffer
    \* One MaterialIdxList record inside the buffer of its MaterialList
    ml_bytes,                \* the bytes of the MaterialList
    ml_pos,                  \* the position of the 4-byte record in ml_bytes
    idx_list,                \* the outcome of from_bytes and read_indices, with the record
    idx_written,             \* the outcome of write_bytes and write_indices, with the buffer
    \* One MaterialList as decoded, then rebased
    mat_list,                \* MaterialList: the two offsets, the name list, the pairing lists
    mat_phase,               \* "none" | "decoded" | "rebased"
    \* One buffer handed to Container::from_bytes
    ct_bytes,                \* the bytes
    ct_result,               \* the outcome of from_bytes
    \* The inputs of MeshCommandGenerator::new and what it returns
    gen_primitives,          \* primitives: the bone_id of each vertex of each primitive
    gen_vertex_bones,        \* vertex_bones: the bone names of the authoring model
    gen_command_bones,       \* command_bones: the bone names of the target model, or None
    gen_result,              \* the outcome of new, with vertex_to_command_bone_mapping
    \* One usize and what the alignment functions return for it
    al_a,                    \* the argument, as 16-bit limbs, least significant first
    al_boundary,             \* 0 | 4 | 16: the function applied
    al_once,                 \* the function of al_a
    al_twice,                \* the function of al_once, or <<>>
    \* Two fixed-point numbers of one variant and the result of an operation
    fx_variant,              \* "1.3.12" | "1.11.4" | "1.19.12" | "1.0.9" | "1.3.6", or "none"
    fx_a,                    \* the raw value of the left operand, or the i16 handed to from_i16
    fx_b,                    \* the raw value of the right operand
    fx_op,                   \* "none" | "add" | "sub" | "from_i16"
    fx_out,                  \* the raw value of the result
    \* One render command whose public fields are edited before it is written
    sz_bytes,                \* the encoding the command is decoded from
    sz_cmd,                  \* None or Some(the RenderCommand)
    sz_edits,                \* number of field edits so far
    sz_written,              \* outcome of write_bytes, with the indices written
    \* A MeshList of several meshes, its edits and rebase
    msl_list,                \* the MeshList
    msl_op,                  \* "none" | "edit" | "rebase"
    msl_edits,               \* number of edits so far
    \* The mesh command generator over triangles, and the extractor run on its output
    tg_input,                \* primitives, vertex_bones, command_bones, texture_size
    tg_mapping,              \* outcome of MeshCommandGenerator::new
    tg_commands,             \* outcome of generate_commands
    tg_extract               \* outcome of the extractor on the commands, with its vertices

xvars == <<render_cmds, bone_list, matrix_stack, current_matrix,
           loaded_bones_in_matrix, x_phase, x_mode, x_pos, x_result,
           x_trace, x_calls, x_last>>

vvars == <<gpu_cmds, current_vertex, vertices, is_in_vtx_group, v_phase,
           v_result, v_calls, v_start, v_hist>>

rvars == <<container, r_op, r_twice, r_before, r_dirty, r_edits>>

mvars == <<m_mesh, m_bytes, m_phase, m_result, m_fresh, m_rebased, m_edits,
           m_written, m_reread>>

cvars == <<rc_bytes, rc_list, rc_written>>

ivars == <<ml_bytes, ml_pos, idx_list, idx_written>>

lvars == <<mat_list, mat_phase>>

dvars == <<ct_bytes, ct_result>>

gvars == <<gen_primitives, gen_vertex_bones, gen_command_bones, gen_result>>

avars == <<al_a, al_boundary, al_once, al_twice>>

fvars == <<fx_variant, fx_a, fx_b, fx_op, fx_out>>

svars == <<sz_bytes, sz_cmd, sz_edits, sz_written>>

qvars == <<msl_list, msl_op, msl_edits>>

tvars == <<tg_input, tg_mapping, tg_commands, tg_extract>>

vars == <<xvars, vvars, rvars, mvars, cvars, ivars, lvars, dvars, gvars, avars, fvars, svars, qvars, tvars>>

\* The variables the executor's actions leave alone.
NotExecVars == <<vvars, rvars, mvars, cvars, ivars, lvars, dvars, gvars, avars, fvars, svars, qvars, tvars>>
\* The variables the extractor's actions leave alone.
NotVtxVars == <<xvars, rvars, mvars, cvars, ivars, lvars, dvars, gvars, avars, fvars, svars, qvars, tvars>>
\* The variables the container's operations leave alone.
NotRebaseVars == <<xvars, vvars, mvars, cvars, ivars, lvars, dvars, gvars, avars, fvars, svars, qvars, tvars>>
\* The variables the operations on the single Mesh leave alone.
NotMeshVars == <<xvars, vvars, rvars, cvars, ivars, lvars, dvars, gvars, avars, fvars, svars, qvars, tvars>>
\* The variables the operations on the MaterialIdxList leave alone.
NotIdxVars == <<xvars, vvars, rvars, mvars, cvars, lvars, dvars, gvars, avars, fvars, svars, qvars, tvars>>
\* The variables the rebase of the single MaterialList leaves alone.
NotLayoutVars == <<xvars, vvars, rvars, mvars, cvars, ivars, dvars, gvars, avars, fvars, svars, qvars, tvars>>
\* The variables the decoding of a container buffer leaves alone.
NotDecodeVars == <<xvars, vvars, rvars, mvars, cvars, ivars, lvars, gvars, avars, fvars, svars, qvars, tvars>>
\* The variables the bone mapping leaves alone.
NotGenVars == <<xvars, vvars, rvars, mvars, cvars, ivars, lvars, dvars, avars, fvars, svars, qvars, tvars>>
\* The variables the alignment functions leave alone.
NotAlignVars == <<xvars, vvars, rvars, mvars, cvars, ivars, lvars, dvars, gvars, fvars, svars, qvars, tvars>>
\* The variables the fixed-point operations leave alone.
NotFixedVars == <<xvars, vvars, rvars, mvars, cvars, ivars, lvars, dvars, gvars, avars, svars, qvars, tvars>>
\* The variables the edits of one render command leave alone.
NotSizeVars == <<xvars, vvars, rvars, mvars, cvars, ivars, lvars, dvars, gvars, avars, fvars, qvars, tvars>>
\* The variables the MeshList operations leave alone.
NotMeshListVars == <<xvars, vvars, rvars, mvars, cvars, ivars, lvars, dvars, gvars, avars, fvars, svars, tvars>>
\* The variables the generation of mesh commands leaves alone.
NotTriVars == <<xvars, vvars, rvars, mvars, cvars, ivars, lvars, dvars, gvars, avars, fvars, svars, qvars>>
\* The variables the render command codec leaves alone.
NotCodecVars == <<xvars, vvars, rvars, mvars, ivars, lvars, dvars, gvars, avars, fvars, svars, qvars, tvars>>

----------------------------------------------------------------------------
(* Bounds of the model. *)

\* Longest render command list built with push.
MaxCmds == 2
\* Number of triangles of the first primitive.
MaxTriangles == 2
\* Number of meshes of the MeshList.
MaxMeshes == 2
\* Number of edits of the meshes of the MeshList.
MaxListEdits == 2
\* Longest list of terms an edit of a CalculateSkinningEquation leaves.
MaxTerms == 2
\* Number of field edits of one render command.
MaxFieldEdits == 2
\* Bytes a write buffer has beyond size().
MaxSlack == 2
\* Number of bones of the bone list.
MaxBones == 3
\* Calls (execute / execute_until_next_mesh_draw) made on one executor.
MaxCalls == 2
\* Longest GPU command list built with push.
MaxGpuCmds == 4
\* Calls of execute() made on one vertex extractor.
MaxVtxCalls == 2
\* Subfiles of a container.
MaxSubfiles == 2
\* Edits (push, clear) made on the lists of a container.
MaxEdits == 2
\* Materials of the single MaterialList.
MaxMaterials == 2
\* Pairings of a pairing list of the single MaterialList.
MaxPairings == 2
\* Indices of a pairing of the single MaterialList.
MaxIndices == 2
\* Bones of vertex_bones and of command_bones.
MaxBoneNames == 2
\* Vertices of the primitives handed to MeshCommandGenerator::new.
MaxVertices == 2
\* Arguments of the alignment functions: 0 to MaxAligned, and as many from
\* usize::MAX down.
MaxAligned == 40
\* Raw values taken next to each end of a fixed-point range and next to zero.
MaxFixedEdge == 2
\* Edits (push, extend, clear) made on the command list of the single Mesh.
MaxMeshEdits == 2
\* Commands of a render command stream before its last command.
MaxStreamCmds == 2
\* Longest MaterialList buffer a MaterialIdxList is decoded from.
MaxListBytes == 16
\* Largest count of a MaterialIdxList record.
MaxIdxCount == 3

----------------------------------------------------------------------------
(* Option<T> *)

None == <<>>
Some(v) == <<v>>
IsSome(o) == Len(o) = 1
Unwrap(o) == o[1]

----------------------------------------------------------------------------
(* util/math/matrix.rs *)

MatIndex(row, column) == row * 4 + column + 1

Identity4 == [i \in 1..16 |-> IF (i - 1) \div 4 = (i - 1) % 4 THEN 1 ELSE 0]

MatSet(m, row, column, value) == [m EXCEPT ![MatIndex(row, column)] = value]

MatMul(a, b) ==
    [i \in 1..16 |->
        LET r == (i - 1) \div 4
            c == (i - 1) % 4
        IN  a[MatIndex(r, 0)] * b[MatIndex(0, c)]
          + a[MatIndex(r, 1)] * b[MatIndex(1, c)]
          + a[MatIndex(r, 2)] * b[MatIndex(2, c)]
          + a[MatIndex(r, 3)] * b[MatIndex(3, c)]]

----------------------------------------------------------------------------
(* subfiles/mdl/model/bone_list.rs: BoneMatrix::to_matrix.  The components  *)
(* are the f32 values of the decoded fixed-point fields (translation and    *)
(* scale: x, y, z; rotation: the nine values of RotationMatrix::matrix_data).*)

to_matrix(bm) ==
    LET scaled ==
            IF IsSome(bm.scale)
            THEN MatSet(MatSet(MatSet(Identity4, 0, 0, Unwrap(bm.scale)[1]),
                               1, 1, Unwrap(bm.scale)[2]),
                        2, 2, Unwrap(bm.scale)[3])
            ELSE Identity4
        rotated ==
            IF IsSome(bm.rotation)
            THEN LET r == Unwrap(bm.rotation)
                 IN  MatMul(<<r[1], r[2], r[3], 0,
                              r[4], r[5], r[6], 0,
                              r[7], r[8], r[9], 0,
                              0,    0,    0,    1>>, scaled)
            ELSE scaled
    IN  IF IsSome(bm.translation)
        THEN LET t == Unwrap(bm.translation)
             IN  MatMul(MatSet(MatSet(MatSet(Identity4, 0, 3, t[1]), 1, 3, t[2]),
                               2, 3, t[3]), rotated)
        ELSE rotated

\* The bone at index i (0-based) of the bone lists of the model: bone 0 is a
\* rotation by a quarter turn about z with a translation, bone 1 a scale,
\* every other bone a pure translation.
BoneAt(i) ==
    [name        |-> i,
     translation |-> IF i = 1 THEN None ELSE Some(<<i + 2, 2 * i + 1, 3 * i>>),
     rotation    |-> IF i = 0 THEN Some(<<0, -1, 0, 1, 0, 0, 0, 0, 1>>) ELSE None,
     scale       |-> IF i = 1 THEN Some(<<2, 3, 5>>) ELSE None]

BoneListOf(n) == [i \in 1..n |-> BoneAt(i - 1)]

\* BoneList::len, get_bone_matrix, get_name (0-based index)
BoneLen(bl) == Len(bl)
get_bone_matrix(bl, index) == bl[index + 1]
get_name(bl, index) == bl[index + 1].name

----------------------------------------------------------------------------
(* subfiles/mdl/model/render_command_list.rs: the RenderCommand variants.   *)
(* Payload fields the executor never reads are left out of the records.     *)

Nop == [op |-> "Nop"]
End == [op |-> "End"]
Unknown0x02 == [op |-> "Unknown0x02"]
LoadMatrixFromStack(stack_index) ==
    [op |-> "LoadMatrixFromStack", stack_index |-> stack_index]
BindMaterial == [op |-> "BindMaterial"]
DrawMesh == [op |-> "DrawMesh"]
MulCurrentMatrixWithBoneMatrix(subtype, bone_index, param_3, param_4) ==
    [op |-> "MulCurrentMatrixWithBoneMatrix", subtype |-> subtype,
     bone_index |-> bone_index, param_3 |-> param_3, param_4 |-> param_4]
Unknown0x07 == [op |-> "Unknown0x07"]
Unknown0x08 == [op |-> "Unknown0x08"]
CalculateSkinningEquation(num_terms) ==
    [op |-> "CalculateSkinningEquation", num_terms |-> num_terms]
Scale == [op |-> "Scale"]
Unknown0x0C == [op |-> "Unknown0x0C"]
Unknown0x0D == [op |-> "Unknown0x0D"]

\* COMMAND_CODE_MASK = 0x1F, COMMAND_SUBTYPE_MASK = !COMMAND_CODE_MASK
CommandCode(op_code) == op_code % 32
CommandSubtype(op_code) == op_code - (op_code % 32)

\* data[i] of a payload slice (0-based, as in the source)
Byte(data, i) == data[i + 1]

\* MulCurrentMatrixWithBoneMatrixData::from_bytes: the decoded data, or None
\* where the source returns Err.
MulData_from_bytes(op_code, data) ==
    LET subtype == CommandSubtype(op_code) IN
    CASE subtype = 0 ->
            IF Len(data) < 3 THEN None
            ELSE Some(MulCurrentMatrixWithBoneMatrix(subtype, Byte(data, 0),
                                                     None, None))
      [] subtype \in {32, 64} ->
            IF Len(data) < 4 THEN None
            ELSE Some(MulCurrentMatrixWithBoneMatrix(subtype, Byte(data, 0),
                                                     Some(Byte(data, 3)), None))
      [] subtype = 96 ->
            IF Len(data) < 5 THEN None
            ELSE Some(MulCurrentMatrixWithBoneMatrix(subtype, Byte(data, 0),
                                                     Some(Byte(data, 3)),
                                                     Some(Byte(data, 4))))
      [] OTHER -> None

\* Payloads of Mul commands (bone, parent, unknown, byte 3, byte 4) by
\* opcode: the four subtypes, a bone index out of range and a slot out of
\* range.
MulPayloads ==
    { <<6, <<1, 0, 0>>>>,
      <<38, <<0, 0, 0, 5>>>>,
      <<70, <<1, 0, 0, 5>>>>,
      <<102, <<2, 0, 0, 5, 7>>>>,
      <<102, <<0, 0, 0, 7, 5>>>>,
      <<38, <<MaxBones, 0, 0, 7>>>>,
      <<70, <<0, 0, 0, 31>>>> }

\* The commands the model pushes: every variant, with a stack index in and
\* out of range, and the decoded Mul payloads.
RenderCommands ==
    { Nop, End, Unknown0x02, BindMaterial, DrawMesh, Unknown0x07, Unknown0x08,
      CalculateSkinningEquation(1), Scale, Unknown0x0C, Unknown0x0D,
      LoadMatrixFromStack(5), LoadMatrixFromStack(31) }
    \cup { Unwrap(MulData_from_bytes(p[1], p[2])) : p \in MulPayloads }

----------------------------------------------------------------------------
(* executors/model_render_cmd_executor.rs *)

\* The number of entries of matrix_stack and loaded_bones_in_matrix.
STACK_LEN == 31

ExecutorState(stack, current, loaded) ==
    [matrix_stack |-> stack, current_matrix |-> current,
     loaded_bones_in_matrix |-> loaded]

\* ModelRenderCmdExecutor::new
NewExecutorState ==
    ExecutorState([i \in 0..(STACK_LEN - 1) |-> Identity4], Identity4,
                  [i \in 0..(STACK_LEN - 1) |-> None])

\* A variant of MulSlots in which subtype 0x60 takes its load slot from
\* param_3 and its store slot from param_4.
MulSlotsLoad3Store4(data) ==
    CASE data.subtype = 0 ->
            [status |-> "ok", store_pos |-> None, load_pos |-> None]
      [] data.subtype = 32 ->
            [status |-> "ok", store_pos |-> data.param_3, load_pos |-> None]
      [] data.subtype = 64 ->
            [status |-> "ok", store_pos |-> None, load_pos |-> data.param_3]
      [] data.subtype = 96 ->
            [status |-> "ok", store_pos |-> data.param_4,
             load_pos |-> data.param_3]
      [] OTHER ->
            [status |-> "err", store_pos |-> None, load_pos |-> None]

\* The (store_pos, load_pos) match on data.subtype.
MulSlots(data) ==
    CASE data.subtype = 0 ->
            [status |-> "ok", store_pos |-> None, load_pos |-> None]
      [] data.subtype = 32 ->
            IF IsSome(data.param_3)
            THEN [status |-> "ok", store_pos |-> data.param_3, load_pos |-> None]
            ELSE [status |-> "panic", store_pos |-> None, load_pos |-> None]
      [] data.subtype = 64 ->
            IF IsSome(data.param_3)
            THEN [status |-> "ok", store_pos |-> None, load_pos |-> data.param_3]
            ELSE [status |-> "panic", store_pos |-> None, load_pos |-> None]
      [] data.subtype = 96 ->
            IF IsSome(data.param_3) /\ IsSome(data.param_4)
            THEN [status |-> "ok", store_pos |-> data.param_3,
                  load_pos |-> data.param_4]
            ELSE [status |-> "panic", store_pos |-> None, load_pos |-> None]
      [] OTHER ->
            [status |-> "err", store_pos |-> None, load_pos |-> None]

\* A variant of MulWithBone that multiplies from the left.
MulWithBoneLeft(current, bone_matrix) == MatMul(bone_matrix, current)

\* self.current_matrix = self.current_matrix.clone() * bone_matrix
MulWithBone(current, bone_matrix) == MatMul(current, bone_matrix)

\* A variant of ExecLoadMatrixFromStack that reports success on every index
\* and copies nothing.
ExecLoadMatrixFromStackNoCopy(st, data) == [status |-> "ok", st |-> st]

\* The LoadMatrixFromStack arm.
ExecLoadMatrixFromStack(st, data) ==
    IF data.stack_index >= STACK_LEN
    THEN [status |-> "err", st |-> st]
    ELSE [status |-> "ok",
          st |-> [st EXCEPT !.current_matrix = st.matrix_stack[data.stack_index]]]

\* The MulCurrentMatrixWithBoneMatrix arm.  An index into matrix_stack past
\* its end panics; the state then keeps what was assigned before the panic.
ExecMul(st, bl, data) ==
    IF data.bone_index >= BoneLen(bl)
    THEN [status |-> "err", st |-> st]
    ELSE
    LET slots == MulSlots(data) IN
    IF slots.status # "ok"
    THEN [status |-> slots.status, st |-> st]
    ELSE
    IF IsSome(slots.load_pos) /\ Unwrap(slots.load_pos) >= STACK_LEN
    THEN [status |-> "panic", st |-> st]
    ELSE
    LET loaded  == IF IsSome(slots.load_pos)
                   THEN st.matrix_stack[Unwrap(slots.load_pos)]
                   ELSE st.current_matrix
        product == MulWithBone(loaded, to_matrix(get_bone_matrix(bl, data.bone_index)))
    IN
    IF ~IsSome(slots.store_pos)
    THEN [status |-> "ok", st |-> [st EXCEPT !.current_matrix = product]]
    ELSE
    IF Unwrap(slots.store_pos) >= STACK_LEN
    THEN [status |-> "panic", st |-> [st EXCEPT !.current_matrix = product]]
    ELSE [status |-> "ok",
          st |-> ExecutorState(
                    [st.matrix_stack EXCEPT ![Unwrap(slots.store_pos)] = product],
                    product,
                    [st.loaded_bones_in_matrix EXCEPT
                        ![Unwrap(slots.store_pos)] =
                            Some(get_name(bl, data.bone_index))])]

\* ModelRenderCmdExecutor::execute_command
execute_command(st, bl, cmd) ==
    CASE cmd.op = "LoadMatrixFromStack" -> ExecLoadMatrixFromStack(st, cmd)
      [] cmd.op = "MulCurrentMatrixWithBoneMatrix" -> ExecMul(st, bl, cmd)
      [] cmd.op \in {"Nop", "End", "Unknown0x02", "BindMaterial", "DrawMesh",
                     "Unknown0x07", "Unknown0x08", "CalculateSkinningEquation",
                     "Scale", "Unknown0x0C", "Unknown0x0D"} ->
            [status |-> "ok", st |-> st]

\* A variant of IsDrawMesh that stops at End instead.
IsEndCommand(cmd) == cmd.op = "End"

\* The test of execute_until_next_mesh_draw that stops the iteration.
IsDrawMesh(cmd) == cmd.op = "DrawMesh"

\* The executor's state as a record, and the record before any command ran.
XState == ExecutorState(matrix_stack, current_matrix, loaded_bones_in_matrix)

NoLast == [valid |-> FALSE, cmd |-> Nop, pre |-> NewExecutorState, status |-> "ok"]

XInit ==
    /\ render_cmds = <<>>
    /\ bone_list = BoneListOf(MaxBones)
    /\ matrix_stack = NewExecutorState.matrix_stack
    /\ current_matrix = NewExecutorState.current_matrix
    /\ loaded_bones_in_matrix = NewExecutorState.loaded_bones_in_matrix
    /\ x_phase = "build"
    /\ x_mode = "execute"
    /\ x_pos = 1
    /\ x_result = "none"
    /\ x_trace = <<>>
    /\ x_calls = 0
    /\ x_last = NoLast

\* RenderCommandList::push
RcPush(cmd) ==
    /\ x_phase = "build"
    /\ Len(render_cmds) < MaxCmds
    /\ render_cmds' = Append(render_cmds, cmd)
    /\ UNCHANGED <<bone_list, matrix_stack, current_matrix, loaded_bones_in_matrix,
                   x_phase, x_mode, x_pos, x_result, x_trace, x_calls, x_last>>
    /\ UNCHANGED NotExecVars

\* ModelRenderCmdExecutor::new over the list and the bone list
NewExecutor ==
    /\ x_phase = "build"
    /\ x_phase' = "ready"
    /\ matrix_stack' = NewExecutorState.matrix_stack
    /\ current_matrix' = NewExecutorState.current_matrix
    /\ loaded_bones_in_matrix' = NewExecutorState.loaded_bones_in_matrix
    /\ x_last' = NoLast
    /\ UNCHANGED <<render_cmds, bone_list, x_mode, x_pos, x_result, x_trace, x_calls>>
    /\ UNCHANGED NotExecVars

\* A call begins: render_cmds.iter() starts at the first command.
BeginCall(mode) ==
    /\ x_phase \in {"ready", "returned"}
    /\ x_result # "panic"
    /\ x_calls < MaxCalls
    /\ x_phase' = "running"
    /\ x_mode' = mode
    /\ x_pos' = 1
    /\ x_result' = "none"
    /\ x_trace' = <<>>
    /\ x_calls' = x_calls + 1
    /\ UNCHANGED <<render_cmds, bone_list, matrix_stack, current_matrix,
                   loaded_bones_in_matrix, x_last>>
    /\ UNCHANGED NotExecVars

\* ModelRenderCmdExecutor::execute, entry
Execute == BeginCall("execute")

\* ModelRenderCmdExecutor::execute_until_next_mesh_draw, entry
ExecuteUntilNextMeshDraw == BeginCall("until_draw")

\* One iteration of either loop: self.execute_command(cmd)?
LoopCommand ==
    /\ x_phase = "running"
    /\ x_pos <= Len(render_cmds)
    /\ ~(x_mode = "until_draw" /\ IsDrawMesh(render_cmds[x_pos]))
    /\ LET cmd == render_cmds[x_pos]
           r   == execute_command(XState, bone_list, cmd)
       IN  /\ matrix_stack' = r.st.matrix_stack
           /\ current_matrix' = r.st.current_matrix
           /\ loaded_bones_in_matrix' = r.st.loaded_bones_in_matrix
           /\ x_trace' = Append(x_trace, x_pos)
           /\ x_last' = [valid |-> TRUE, cmd |-> cmd, pre |-> XState,
                         status |-> r.status]
           /\ IF r.status = "ok"
              THEN /\ x_pos' = x_pos + 1
                   /\ UNCHANGED <<x_phase, x_result>>
              ELSE /\ x_phase' = "returned"
                   /\ x_result' = r.status
                   /\ UNCHANGED x_pos
    /\ UNCHANGED <<render_cmds, bone_list, x_mode, x_calls>>
    /\ UNCHANGED NotExecVars

\* execute_until_next_mesh_draw meets a DrawMesh: return Ok(())
ReturnAtDrawMesh ==
    /\ x_phase = "running"
    /\ x_mode = "until_draw"
    /\ x_pos <= Len(render_cmds)
    /\ IsDrawMesh(render_cmds[x_pos])
    /\ x_phase' = "returned"
    /\ x_result' = "ok"
    /\ UNCHANGED <<render_cmds, bone_list, matrix_stack, current_matrix,
                   loaded_bones_in_matrix, x_mode, x_pos, x_trace, x_calls, x_last>>
    /\ UNCHANGED NotExecVars

\* The iterator is exhausted: Ok(()) for execute, the "No DrawMesh command
\* found" error for execute_until_next_mesh_draw.
ReturnAfterLoop ==
    /\ x_phase = "running"
    /\ x_pos > Len(render_cmds)
    /\ x_phase' = "returned"
    /\ x_result' = IF x_mode = "execute" THEN "ok" ELSE "err_no_draw"
    /\ UNCHANGED <<render_cmds, bone_list, matrix_stack, current_matrix,
                   loaded_bones_in_matrix, x_mode, x_pos, x_trace, x_calls, x_last>>
    /\ UNCHANGED NotExecVars

----------------------------------------------------------------------------
(* util/number/fixed_point: to_f32.  An f32 is counted in units of 1/4096,  *)
(* which every value of both formats is a whole number of.                  *)

F32_UNITS == 4096

\* Fixed1_3_12::to_f32: value / (1 << 12)
Fixed1_3_12_to_f32(value) == (value * F32_UNITS) \div 4096

\* Fixed1_3_6::to_f32: value / (1 << 6)
Fixed1_3_6_to_f32(value) == (value * F32_UNITS) \div 64

----------------------------------------------------------------------------
(* subfiles/mdl/model/mesh_list/gpu_command_list.rs: the GpuCommand         *)
(* variants the extractor distinguishes, with the raw value of each         *)
(* fixed-point parameter.                                                   *)

GpuNop == [op |-> "Nop"]
MtxRestoreCmd(index) == [op |-> "MtxRestore", index |-> index]
\* index 0; a u32 is kept as its 16-bit halves <<low, high>>
MtxRestore == MtxRestoreCmd(<<0, 0>>)
Color(r, g, b) == [op |-> "Color", r |-> r, g |-> g, b |-> b]
Vtx16(x, y, z) == [op |-> "Vtx16", x |-> x, y |-> y, z |-> z]
Vtx10(x, y, z) == [op |-> "Vtx10", x |-> x, y |-> y, z |-> z]
VtxXY(x, y) == [op |-> "VtxXY", x |-> x, y |-> y]
VtxXZ(x, z) == [op |-> "VtxXZ", x |-> x, z |-> z]
VtxYZ(y, z) == [op |-> "VtxYZ", y |-> y, z |-> z]
VtxDiff(x, y, z) == [op |-> "VtxDiff", x |-> x, y |-> y, z |-> z]
BeginVtxsCmd(primitive_type) ==
    [op |-> "BeginVtxs", primitive_type |-> primitive_type]
\* BeginVtxsParams::TRIANGLE
BeginVtxs == BeginVtxsCmd(0)
EndVtxs == [op |-> "EndVtxs"]

\* The commands the model pushes.
GpuCommands ==
    { GpuNop, BeginVtxs, EndVtxs,
      Vtx16(4096, 0, 0), Vtx10(32, 64, 96), VtxXY(8192, 12288),
      VtxXZ(-4096, 2048), VtxYZ(6144, -2048), VtxDiff(0, 0, 4096) }

\* The command vectors the model hands to extend: the list of the vertex
\* extractor scenario, BeginVtxs, Vtx16(1,0,0), VtxXY(2,3), VtxDiff(0,0,1),
\* EndVtxs.
GpuCommandVectors ==
    { <<BeginVtxs, Vtx16(4096, 0, 0), VtxXY(8192, 12288), VtxDiff(0, 0, 4096),
        EndVtxs>> }

----------------------------------------------------------------------------
(* executors/mesh_render_cmd_vertex_pos_extractor.rs *)

Position(x, y, z) == [x |-> x, y |-> y, z |-> z]

ExtractorState(current, verts, in_group) ==
    [current_vertex |-> current, vertices |-> verts, is_in_vtx_group |-> in_group]

\* MeshRenderCmdVertexPosExtractor::new
NewExtractorState == ExtractorState(Position(0, 0, 0), <<>>, FALSE)

\* self.current_vertex = vertex_pos.clone(); self.vertices.push(vertex_pos)
PushVertex(st, vertex_pos) ==
    [status |-> "ok",
     st |-> [st EXCEPT !.current_vertex = vertex_pos,
                       !.vertices = Append(st.vertices, vertex_pos)]]

\* A variant of VtxXYPosition that takes z from the parameters' side as 0.
VtxXYPositionZeroZ(current, params) ==
    Position(Fixed1_3_12_to_f32(params.x), Fixed1_3_12_to_f32(params.y), 0)

\* The Position built by the VtxXY arm.
VtxXYPosition(current, params) ==
    Position(Fixed1_3_12_to_f32(params.x), Fixed1_3_12_to_f32(params.y), current.z)

\* The Position built by the VtxXZ arm.
VtxXZPosition(current, params) ==
    Position(Fixed1_3_12_to_f32(params.x), current.y, Fixed1_3_12_to_f32(params.z))

\* The Position built by the VtxYZ arm.
VtxYZPosition(current, params) ==
    Position(current.x, Fixed1_3_12_to_f32(params.y), Fixed1_3_12_to_f32(params.z))

\* The Position built by the VtxDiff arm.
VtxDiffPosition(current, params) ==
    Position(current.x + Fixed1_3_12_to_f32(params.x),
             current.y + Fixed1_3_12_to_f32(params.y),
             current.z + Fixed1_3_12_to_f32(params.z))

\* A variant of ExecBeginVtxs without the test of is_in_vtx_group.
ExecBeginVtxsNoTest(st) ==
    [status |-> "ok",
     st |-> [st EXCEPT !.is_in_vtx_group = TRUE,
                       !.current_vertex = Position(0, 0, 0)]]

\* The BeginVtxs arm.
ExecBeginVtxs(st) ==
    IF st.is_in_vtx_group
    THEN [status |-> "err", st |-> st]
    ELSE [status |-> "ok",
          st |-> [st EXCEPT !.is_in_vtx_group = TRUE,
                            !.current_vertex = Position(0, 0, 0)]]

\* The EndVtxs arm.
ExecEndVtxs(st) ==
    IF ~st.is_in_vtx_group
    THEN [status |-> "err", st |-> st]
    ELSE [status |-> "ok", st |-> [st EXCEPT !.is_in_vtx_group = FALSE]]

\* MeshRenderCmdVertexPosExtractor::execute_command
vtx_execute_command(st, cmd) ==
    CASE cmd.op = "Vtx16" ->
            PushVertex(st, Position(Fixed1_3_12_to_f32(cmd.x),
                                    Fixed1_3_12_to_f32(cmd.y),
                                    Fixed1_3_12_to_f32(cmd.z)))
      [] cmd.op = "Vtx10" ->
            PushVertex(st, Position(Fixed1_3_6_to_f32(cmd.x),
                                    Fixed1_3_6_to_f32(cmd.y),
                                    Fixed1_3_6_to_f32(cmd.z)))
      [] cmd.op = "VtxXY" -> PushVertex(st, VtxXYPosition(st.current_vertex, cmd))
      [] cmd.op = "VtxXZ" -> PushVertex(st, VtxXZPosition(st.current_vertex, cmd))
      [] cmd.op = "VtxYZ" -> PushVertex(st, VtxYZPosition(st.current_vertex, cmd))
      [] cmd.op = "VtxDiff" -> PushVertex(st, VtxDiffPosition(st.current_vertex, cmd))
      [] cmd.op = "BeginVtxs" -> ExecBeginVtxs(st)
      [] cmd.op = "EndVtxs" -> ExecEndVtxs(st)
      [] OTHER -> [status |-> "ok", st |-> st]

\* The loop of MeshRenderCmdVertexPosExtractor::execute from position i on:
\* the final state, the result, and the state after each command run.
RECURSIVE VtxRun(_, _, _, _)
VtxRun(st, cmds, i, hist) ==
    IF i > Len(cmds)
    THEN [st |-> st, result |-> "ok", hist |-> hist]
    ELSE LET r == vtx_execute_command(st, cmds[i])
         IN  IF r.status = "ok"
             THEN VtxRun(r.st, cmds, i + 1, Append(hist, r.st))
             ELSE [st |-> r.st, result |-> r.status, hist |-> Append(hist, r.st)]

VState == ExtractorState(current_vertex, vertices, is_in_vtx_group)

VInit ==
    /\ gpu_cmds = <<>>
    /\ current_vertex = NewExtractorState.current_vertex
    /\ vertices = NewExtractorState.vertices
    /\ is_in_vtx_group = NewExtractorState.is_in_vtx_group
    /\ v_phase = "build"
    /\ v_result = "none"
    /\ v_calls = 0
    /\ v_start = NewExtractorState
    /\ v_hist = <<>>

\* GpuCommandList::push
GpuPush(cmd) ==
    /\ v_phase = "build"
    /\ Len(gpu_cmds) < MaxGpuCmds
    /\ gpu_cmds' = Append(gpu_cmds, cmd)
    /\ UNCHANGED <<current_vertex, vertices, is_in_vtx_group, v_phase, v_result,
                   v_calls, v_start, v_hist>>
    /\ UNCHANGED NotVtxVars

\* GpuCommandList::extend, on the empty list
GpuExtend(commands) ==
    /\ v_phase = "build"
    /\ gpu_cmds = <<>>
    /\ gpu_cmds' = gpu_cmds \o commands
    /\ UNCHANGED <<current_vertex, vertices, is_in_vtx_group, v_phase, v_result,
                   v_calls, v_start, v_hist>>
    /\ UNCHANGED NotVtxVars

\* MeshRenderCmdVertexPosExtractor::new over the list
NewExtractor ==
    /\ v_phase = "build"
    /\ v_phase' = "ready"
    /\ current_vertex' = NewExtractorState.current_vertex
    /\ vertices' = NewExtractorState.vertices
    /\ is_in_vtx_group' = NewExtractorState.is_in_vtx_group
    /\ v_start' = NewExtractorState
    /\ UNCHANGED <<gpu_cmds, v_result, v_calls, v_hist>>
    /\ UNCHANGED NotVtxVars

\* MeshRenderCmdVertexPosExtractor::execute
VtxExecute ==
    /\ v_phase \in {"ready", "returned"}
    /\ v_calls < MaxVtxCalls
    /\ LET r == VtxRun(VState, gpu_cmds, 1, <<>>)
       IN  /\ current_vertex' = r.st.current_vertex
           /\ vertices' = r.st.vertices
           /\ is_in_vtx_group' = r.st.is_in_vtx_group
           /\ v_result' = r.result
           /\ v_hist' = r.hist
    /\ v_start' = VState
    /\ v_phase' = "returned"
    /\ v_calls' = v_calls + 1
    /\ UNCHANGED gpu_cmds
    /\ UNCHANGED NotVtxVars

----------------------------------------------------------------------------
(* Integer casts and util/number/alignment.rs.  usize and u32 values of the *)
(* model stay far below 2^32, where `as u32` is the identity.               *)

U8(n) == n % 256
U16(n) == n % 65536

\* get_4_byte_alignment: (a.wrapping_sub(1) & !3).wrapping_add(4); for a = 0
\* the subtraction wraps to usize::MAX and the addition wraps back to 0.
get_4_byte_alignment(a) ==
    IF a = 0 THEN 0 ELSE ((a - 1) - ((a - 1) % 4)) + 4

RECURSIVE SumSeq(_)
SumSeq(s) == IF s = <<>> THEN 0 ELSE Head(s) + SumSeq(Tail(s))

MaxSeq(s, default) ==
    IF s = <<>> THEN default
    ELSE CHOOSE m \in {s[i] : i \in 1..Len(s)} : \A i \in 1..Len(s) : s[i] <= m

----------------------------------------------------------------------------
(* data_structures/name_list.rs.  unknown and names are the lengths of      *)
(* unknown.unknown and names.                                               *)

Name_SIZE == 16
UnknownHeader_SIZE == 8

\* Unknown::size
Unknown_size(unknown) == UnknownHeader_SIZE + unknown * 4

\* A NameList as decoded: count elements of data, as many names.
NameListOf(size, element_size, data) ==
    [count |-> Len(data), size |-> size, unknown |-> Len(data),
     element_size |-> element_size, data |-> data, names |-> Len(data)]

\* A variant of NameList_rebase that grows the stored size.
NameList_rebase_grow(nl) ==
    [nl EXCEPT !.size = U16(nl.size + 4 + Len(nl.data) * nl.element_size)]

\* NameList::rebase
NameList_rebase(nl) ==
    [nl EXCEPT !.size = U16(4 + Unknown_size(nl.unknown) + 4
                            + Len(nl.data) * nl.element_size
                            + nl.names * Name_SIZE)]

\* NameList::size
NameList_size(nl) == nl.size

----------------------------------------------------------------------------
(* Sizes of the sections of a Model. *)

\* BoneMatrix::size from the flags t, rm, s, rp of a decoded bone matrix:
\* the translation is present iff t is clear, the scale iff s is clear, the
\* rotation iff rp is set or rm is clear (RotationMatrix::size).
BoneMatrix_size(flags) ==
    4 + (IF flags.t THEN 0 ELSE 12)
      + (IF flags.rp THEN 4 ELSE IF ~flags.rm THEN 16 ELSE 0)
      + (IF flags.s THEN 0 ELSE 12)

\* BoneList::size
BoneList_size(bl) ==
    NameList_size(bl.bones)
      + SumSeq([i \in 1..Len(bl.bone_matrices) |-> BoneMatrix_size(bl.bone_matrices[i])])

\* BoneList::rebase
BoneList_rebase(bl) == [bl EXCEPT !.bones = NameList_rebase(bl.bones)]

\* MulCurrentMatrixWithBoneMatrixData::len
MulData_len(data) ==
    CASE data.subtype = 0 -> 3
      [] data.subtype \in {32, 64} -> 4
      [] data.subtype = 96 -> 5

\* RenderCommand::size
RenderCommand_size(cmd) ==
    CASE cmd.op \in {"Nop", "End", "Scale"} -> 1
      [] cmd.op \in {"LoadMatrixFromStack", "BindMaterial", "DrawMesh",
                     "Unknown0x07", "Unknown0x08"} -> 2
      [] cmd.op \in {"Unknown0x02", "Unknown0x0C", "Unknown0x0D"} -> 3
      [] cmd.op = "MulCurrentMatrixWithBoneMatrix" -> 1 + MulData_len(cmd)
      [] cmd.op = "CalculateSkinningEquation" -> 1 + (cmd.num_terms * 3 + 2)

\* RenderCommandList::size
RenderCommandList_size(cmds) ==
    SumSeq([i \in 1..Len(cmds) |-> RenderCommand_size(cmds[i])])

\* static SIZES, indexed from opcode 0
SIZES ==
    <<0, -1, -1, -1, -1, -1, -1, -1, -1, -1, -1, -1, -1, -1, -1, -1,
      1,  0,  1,  1,  1,  0, 16, 12, 16, 12,  9,  3,  3, -1, -1, -1,
      1,  1,  1,  2,  1,  1,  1,  1,  1,  1,  1,  1, -1, -1, -1, -1,
      1,  1,  1,  1,  1, -1, -1, -1, -1, -1, -1, -1, -1, -1, -1, -1,
      1,  0>>

\* num_params: the number of parameter words of an opcode (-1 for Err)
num_params(opcode) ==
    IF opcode >= Len(SIZES) \/ SIZES[opcode + 1] = -1 THEN -1
    ELSE SIZES[opcode + 1]

\* GpuCommand::op_code
GpuCommand_op_code(cmd) ==
    CASE cmd.op = "Nop" -> 0
      [] cmd.op = "MtxRestore" -> 20
      [] cmd.op = "Color" -> 32
      [] cmd.op = "Vtx16" -> 35
      [] cmd.op = "Vtx10" -> 36
      [] cmd.op = "VtxXY" -> 37
      [] cmd.op = "VtxXZ" -> 38
      [] cmd.op = "VtxYZ" -> 39
      [] cmd.op = "VtxDiff" -> 40
      [] cmd.op = "BeginVtxs" -> 64
      [] cmd.op = "EndVtxs" -> 65

\* GpuCommandList::nop_padding_ammount
nop_padding_ammount(cmds) == get_4_byte_alignment(Len(cmds)) - Len(cmds)

\* GpuCommandList::size
GpuCommandList_size(cmds) ==
    Len(cmds) + nop_padding_ammount(cmds)
      + SumSeq([i \in 1..Len(cmds) |-> num_params(GpuCommand_op_code(cmds[i])) * 4])

Mesh_SIZE == 16

\* Mesh::size
Mesh_size(mesh) == Mesh_SIZE + GpuCommandList_size(mesh.render_cmds_list)

\* Mesh::rebase that leaves the stored cmds_len as it is
Mesh_rebase_stale(mesh) == mesh

\* Mesh::rebase
Mesh_rebase(mesh) ==
    [mesh EXCEPT !.cmds_len = GpuCommandList_size(mesh.render_cmds_list)]

\* MeshList::size
MeshList_size(ml) ==
    NameList_size(ml.meshes)
      + SumSeq([i \in 1..Len(ml.mesh_data) |-> Mesh_size(ml.mesh_data[i])])

\* MeshList::rebase
MeshList_rebase(ml) ==
    [ml EXCEPT !.mesh_data = [i \in 1..Len(ml.mesh_data) |-> Mesh_rebase(ml.mesh_data[i])]]

InvBindMatrix_SIZE == 84

\* InvBindMatrices::size, of a list of the given length
InvBindMatrices_size(matrices) == matrices * InvBindMatrix_SIZE

----------------------------------------------------------------------------
(* subfiles/mdl/model/material_list.rs.  A pairing list is its NameList,    *)
(* whose data elements are MaterialIdxList records.                         *)

Material_SIZE == 44

\* MaterialIdxList::rebase
MaterialIdxList_rebase(pairing) ==
    [pairing EXCEPT !.count = U8(Len(pairing.indices))]

\* TexturePairingList::rebase
TexturePairingList_rebase(texture_pairings) ==
    [NameList_rebase(texture_pairings) EXCEPT !.data =
        [i \in 1..Len(texture_pairings.data) |-> MaterialIdxList_rebase(texture_pairings.data[i])]]

\* PalettePairingList::rebase
PalettePairingList_rebase(palette_pairings) ==
    [NameList_rebase(palette_pairings) EXCEPT !.data =
        [i \in 1..Len(palette_pairings.data) |-> MaterialIdxList_rebase(palette_pairings.data[i])]]

\* TexturePairingList::total_indices_count, PalettePairingList::total_indices_count
total_indices_count(pairings) ==
    SumSeq([i \in 1..Len(pairings.data) |-> pairings.data[i].count])

\* TexturePairingList::set_begin_indices_offset,
\* PalettePairingList::set_begin_indices_offset (a running u16 offset)
set_begin_indices_offset(pairings, offset) ==
    [pairings EXCEPT !.data =
        [i \in 1..Len(pairings.data) |->
            [pairings.data[i] EXCEPT !.offset =
                U16(offset + SumSeq([k \in 1..(i - 1) |-> pairings.data[k].count]))]]]

\* MaterialList::size
MaterialList_size(ml) ==
    LET last_material == MaxSeq(ml.materials.data, 0) + Material_SIZE
        texture_end == ml.texture_pairings_offset + NameList_size(ml.texture_pairing_list)
        palette_end == ml.palette_pairings_offset + NameList_size(ml.palette_pairing_list)
        first_max == IF last_material >= texture_end THEN last_material ELSE texture_end
    IN IF first_max >= palette_end THEN first_max ELSE palette_end

\* A variant of MaterialList_place that puts the material data right after
\* the indices, without the 4-byte alignment.
MaterialList_place_unaligned(materials, textures, palettes) ==
    LET texture_pairings_offset == 4 + NameList_size(materials)
        palette_pairings_offset == texture_pairings_offset + NameList_size(textures)
        texture_indices == palette_pairings_offset + NameList_size(palettes)
        palette_indices == texture_indices + total_indices_count(textures)
        material_data == palette_indices + total_indices_count(palettes)
    IN [texture_pairings_offset |-> U16(texture_pairings_offset),
        palette_pairings_offset |-> U16(palette_pairings_offset),
        materials |->
            [materials EXCEPT !.data =
                [i \in 1..Len(materials.data) |-> material_data + (i - 1) * Material_SIZE]],
        texture_pairing_list |-> set_begin_indices_offset(textures, U16(texture_indices)),
        palette_pairing_list |-> set_begin_indices_offset(palettes, U16(palette_indices))]

\* MaterialList::rebase, from the rebased name list and pairing lists on:
\* the running offset and the placement of indices and material data.
MaterialList_place(materials, textures, palettes) ==
    LET texture_pairings_offset == 4 + NameList_size(materials)
        palette_pairings_offset == texture_pairings_offset + NameList_size(textures)
        texture_indices == palette_pairings_offset + NameList_size(palettes)
        palette_indices == texture_indices + total_indices_count(textures)
        material_data ==
            get_4_byte_alignment(palette_indices + total_indices_count(palettes))
    IN [texture_pairings_offset |-> U16(texture_pairings_offset),
        palette_pairings_offset |-> U16(palette_pairings_offset),
        materials |->
            [materials EXCEPT !.data =
                [i \in 1..Len(materials.data) |-> material_data + (i - 1) * Material_SIZE]],
        texture_pairing_list |-> set_begin_indices_offset(textures, U16(texture_indices)),
        palette_pairing_list |-> set_begin_indices_offset(palettes, U16(palette_indices))]

\* MaterialList::rebase
MaterialList_rebase(ml) ==
    MaterialList_place(NameList_rebase(ml.materials),
                       TexturePairingList_rebase(ml.texture_pairing_list),
                       PalettePairingList_rebase(ml.palette_pairing_list))

----------------------------------------------------------------------------
(* subfiles/mdl/model/mod.rs, subfiles/mdl/mod.rs, container.rs. *)

Header_SIZE == 16

\* A variant of the section offsets without 4-byte alignment of the sizes.
SectionOffsetsUnaligned(bones, render_commands, materials, meshes) ==
    LET render_command_list_offset == 64 + BoneList_size(bones)
        material_list_offset ==
            render_command_list_offset + RenderCommandList_size(render_commands)
        mesh_list_offset == material_list_offset + MaterialList_size(materials)
    IN <<render_command_list_offset, material_list_offset, mesh_list_offset,
         mesh_list_offset + MeshList_size(meshes)>>

\* The four section offsets Model::rebase computes from the rebased sections.
SectionOffsets(bones, render_commands, materials, meshes) ==
    LET render_command_list_offset ==
            64 + get_4_byte_alignment(BoneList_size(bones))
        material_list_offset ==
            render_command_list_offset
              + get_4_byte_alignment(RenderCommandList_size(render_commands))
        mesh_list_offset ==
            material_list_offset + get_4_byte_alignment(MaterialList_size(materials))
    IN <<render_command_list_offset, material_list_offset, mesh_list_offset,
         mesh_list_offset + get_4_byte_alignment(MeshList_size(meshes))>>

\* Model::size
Model_size(model) ==
    model.inv_binds_offset + InvBindMatrices_size(model.inv_binds_matrices)

\* Model::rebase, after the rebase of the sections: the offsets, then the
\* size, which is self.size() read once inv_binds_offset is stored.
Model_place(model, bones, materials, meshes, offsets) ==
    [model EXCEPT !.bone_list = bones,
                  !.materials = materials,
                  !.meshes = meshes,
                  !.render_cmds_offset = offsets[1],
                  !.materials_offset = offsets[2],
                  !.meshes_offset = offsets[3],
                  !.inv_binds_offset = offsets[4],
                  !.size = offsets[4] + InvBindMatrices_size(model.inv_binds_matrices)]

\* Model::rebase, from the rebased sections on.
Model_layout(model, bones, materials, meshes) ==
    Model_place(model, bones, materials, meshes,
                SectionOffsets(bones, model.render_commands, materials, meshes))

\* Model::rebase
Model_rebase(model) ==
    Model_layout(model, BoneList_rebase(model.bone_list),
                 MaterialList_rebase(model.materials),
                 MeshList_rebase(model.meshes))

\* The offsets the loop of Mdl::rebase stores for the rebased models.
RECURSIVE ModelOffsets(_, _, _)
ModelOffsets(models_data, prev_offset, prev_size) ==
    IF models_data = <<>> THEN <<>>
    ELSE <<prev_offset + prev_size>>
           \o ModelOffsets(Tail(models_data), prev_offset + prev_size,
                           Model_size(Head(models_data)))

\* Mdl::rebase, after the loop: the stored offsets and the filesize
\* (prev_offset + prev_size of the last model, or of the start).
Mdl_place(mdl, models_data, offsets) ==
    [filesize |-> IF models_data = <<>> THEN 8 + NameList_size(mdl.models)
                  ELSE offsets[Len(offsets)] + Model_size(models_data[Len(models_data)]),
     models |-> [mdl.models EXCEPT !.data = offsets],
     models_data |-> models_data]

\* Mdl::rebase, from the rebased models on.
Mdl_layout(mdl, models_data) ==
    Mdl_place(mdl, models_data,
              ModelOffsets(models_data, 8 + NameList_size(mdl.models), 0))

\* Mdl::rebase.  A mismatch between models header and models data panics;
\* no Mdl of the model has one.
Mdl_rebase(mdl) ==
    Mdl_layout(mdl, [i \in 1..Len(mdl.models_data) |-> Model_rebase(mdl.models_data[i])])

\* Mdl::size
Mdl_size(mdl) == mdl.filesize

\* Tex::size
Tex_size(tex) == tex.chunk_size

\* The size a subfile reports to Container::rebase, after rebasing the MDLs.
SubfileSize(mdl, tex, entry) ==
    IF entry.file_type = "MDL" THEN Mdl_size(mdl[entry.local_index + 1])
    ELSE Tex_size(tex[entry.local_index + 1])

\* The offsets the loop of Container::rebase stores, from the subfile sizes.
RECURSIVE SubfileOffsets(_, _, _)
SubfileOffsets(sizes, prev_offset, prev_size) ==
    IF sizes = <<>> THEN <<>>
    ELSE LET offset == get_4_byte_alignment(prev_offset + prev_size)
         IN <<offset>> \o SubfileOffsets(Tail(sizes), offset, Head(sizes))

\* Container::rebase, after the loop: the stored offsets and the filesize.
Container_place(c, mdl, sizes, offsets) ==
    [c EXCEPT !.mdl = mdl,
              !.subfile_offsets = offsets,
              !.filesize = IF sizes = <<>> THEN Header_SIZE + Len(c.subfile_offsets) * 4
                           ELSE offsets[Len(offsets)] + sizes[Len(sizes)]]

\* Container::rebase, from the sizes the subfiles report on.
Container_layout(c, mdl, sizes) ==
    Container_place(c, mdl, sizes,
                    SubfileOffsets(sizes, Header_SIZE + Len(c.subfile_offsets) * 4, 0))

\* Container::rebase, from the rebased MDLs on.
Container_sizes(c, mdl) ==
    Container_layout(c, mdl,
        [g \in 1..Len(c.sorted_indices) |-> SubfileSize(mdl, c.tex, c.sorted_indices[g])])

\* Container::rebase.  read_files gives every MDL one entry of
\* sorted_indices, so the loop rebases every MDL exactly once; the TEX
\* rebase is commented out and a TEX reports its stored chunk_size.
Container_rebase(c) ==
    Container_sizes(c, [i \in 1..Len(c.mdl) |-> Mdl_rebase(c.mdl[i])])

----------------------------------------------------------------------------
(* The containers the rebase model starts from: decoded files whose MDLs    *)
(* are laid out as the encoder lays them out, and whose TEX chunk_size,     *)
(* which Tex::from_bytes reads without validating, is any of TexChunkSizes. *)

Tex_MIN_LEN == 60
TexChunkSizes == {0, 61, 64}

\* A NameList of n entries of 4-byte data, with its stored size.
SampleNameList(data) == NameList_rebase(NameListOf(0, 4, data))

\* Two bones: one with translation and a 3x3 rotation, one with a pivot
\* rotation only (flags t, s and rp set).
SampleBoneList ==
    [bones |-> SampleNameList(<<0, 0>>),
     bone_matrices |-> << [t |-> FALSE, rm |-> FALSE, s |-> TRUE, rp |-> FALSE],
                          [t |-> TRUE, rm |-> TRUE, s |-> TRUE, rp |-> TRUE] >>]

\* Two materials; two texture pairings (of 1 and 2 material indices) and one
\* palette pairing (of 1 material index).
SampleMaterialList ==
    MaterialList_rebase(
        [texture_pairings_offset |-> 0,
         palette_pairings_offset |-> 0,
         materials |-> NameListOf(0, 4, <<0, 0>>),
         texture_pairing_list |->
            NameListOf(0, 4, << [offset |-> 0, count |-> 1, indices |-> <<0>>],
                                [offset |-> 0, count |-> 2, indices |-> <<0, 1>>] >>),
         palette_pairing_list |->
            NameListOf(0, 4, << [offset |-> 0, count |-> 1, indices |-> <<1>>] >>)])

\* One mesh; its GPU command list is the given one.
SampleMeshList(cmds) ==
    [meshes |-> SampleNameList(<<0>>),
     mesh_data |-> << [cmds_offset |-> Mesh_SIZE,
                       cmds_len |-> GpuCommandList_size(cmds),
                       render_cmds_list |-> cmds] >>]

SampleModel(render_commands, cmds, inv_binds) ==
    Model_rebase(
        [size |-> 0, render_cmds_offset |-> 0, materials_offset |-> 0,
         meshes_offset |-> 0, inv_binds_offset |-> 0,
         bone_list |-> SampleBoneList,
         render_commands |-> render_commands,
         materials |-> SampleMaterialList,
         meshes |-> SampleMeshList(cmds),
         inv_binds_matrices |-> inv_binds])

\* An MDL of two models.
SampleMdl ==
    Mdl_rebase(
        [filesize |-> 0,
         models |-> SampleNameList(<<0, 0>>),
         models_data |->
            << SampleModel(<<BindMaterial, DrawMesh, End>>, <<BeginVtxs, EndVtxs>>, 2),
               SampleModel(<<End>>, <<>>, 0) >>])

SampleTex(chunk_size) == [chunk_size |-> chunk_size]

\* The number of entries of the given type among the first g of kinds.
RECURSIVE CountOf(_, _, _)
CountOf(kinds, g, file_type) ==
    IF g = 0 THEN 0
    ELSE CountOf(kinds, g - 1, file_type) + (IF kinds[g] = file_type THEN 1 ELSE 0)

\* The bytes a subfile occupies in the decoded file: a TEX is at least the
\* 60 bytes Tex::from_bytes requires, whatever its chunk_size says.
SubfileExtent(mdl, tex, entry) ==
    IF entry.file_type = "TEX" /\ Tex_size(tex[entry.local_index + 1]) < Tex_MIN_LEN
    THEN Tex_MIN_LEN
    ELSE SubfileSize(mdl, tex, entry)

\* read_files: the entries of sorted_indices for subfiles of the given types.
SortedIndicesOf(kinds) ==
    [g \in 1..Len(kinds) |-> [file_type |-> kinds[g],
                              local_index |-> CountOf(kinds, g - 1, kinds[g])]]

\* The decoded container, from the extents of its subfiles in the file.
DecodedAt(sorted_indices, mdl, tex, extents, offsets) ==
    [filesize |-> IF extents = <<>> THEN Header_SIZE
                  ELSE offsets[Len(offsets)] + extents[Len(extents)],
     subfile_offsets |-> offsets,
     mdl |-> mdl,
     tex |-> tex,
     sorted_indices |-> sorted_indices]

DecodedFrom(sorted_indices, mdl, tex, extents) ==
    DecodedAt(sorted_indices, mdl, tex, extents,
              SubfileOffsets(extents, Header_SIZE + Len(extents) * 4, 0))

DecodedFiles(sorted_indices, mdl, tex) ==
    DecodedFrom(sorted_indices, mdl, tex,
        [g \in 1..Len(sorted_indices) |-> SubfileExtent(mdl, tex, sorted_indices[g])])

\* Container::from_bytes of a file with subfiles of the given types, in
\* arrival order, each TEX with the given chunk_size.
DecodedContainer(kinds, chunk_size) ==
    DecodedFiles(SortedIndicesOf(kinds),
                 [i \in 1..CountOf(kinds, Len(kinds), "MDL") |-> SampleMdl],
                 [i \in 1..CountOf(kinds, Len(kinds), "TEX") |-> SampleTex(chunk_size)])

SubfileKinds ==
    UNION {[1..n -> {"MDL", "TEX"}] : n \in 0..MaxSubfiles}

----------------------------------------------------------------------------
(* The container and the operations of its public API: edits of the lists of *)
(* the first model of the first MDL, and rebase on the Container, on its     *)
(* first Mdl and on the models of that Mdl.                                  *)

RState(c, op, twice, before, dirty, edits) ==
    /\ container' = c
    /\ r_op' = op
    /\ r_twice' = twice
    /\ r_before' = before
    /\ r_dirty' = dirty
    /\ r_edits' = edits

NoOp == [kind |-> "none", mdl |-> 0, model |-> 0]

RInitOf(kinds, chunk_size) ==
    /\ container = DecodedContainer(kinds, chunk_size)
    /\ r_op = NoOp
    /\ r_twice = FALSE
    /\ r_before = container
    /\ r_dirty = {}
    /\ r_edits = 0

\* The container of the executor's and the extractor's specifications.
RIdle == RInitOf(<<>>, 0)

RInit == \E kinds \in SubfileKinds, chunk_size \in TexChunkSizes :
            RInitOf(kinds, chunk_size)

\* The render commands and GPU commands the edits push.
EditRenderCommands == {Nop, CalculateSkinningEquation(2)}
EditGpuCommands == {MtxRestore}

\* An edit through get_mdl_mut(0), get_model_mut(0): the model becomes c's.
Edited(c) ==
    /\ r_edits < MaxEdits
    /\ RState(c, [kind |-> "edit", mdl |-> 0, model |-> 0], FALSE, c,
              r_dirty \cup {<<0, 0>>}, r_edits + 1)
    /\ UNCHANGED NotRebaseVars

HasFirstModel == Len(container.mdl) > 0 /\ Len(container.mdl[1].models_data) > 0

\* Model::get_render_cmds_list_mut().push(cmd)
RenderCmdsPush(cmd) ==
    /\ HasFirstModel
    /\ Edited([container EXCEPT !.mdl[1].models_data[1].render_commands = Append(@, cmd)])

\* Model::get_render_cmds_list_mut().clear()
RenderCmdsClear ==
    /\ HasFirstModel
    /\ Edited([container EXCEPT !.mdl[1].models_data[1].render_commands = <<>>])

\* Mesh::get_render_cmds_list_mut().push(cmd), on mesh 0
MeshCmdsPush(cmd) ==
    /\ HasFirstModel
    /\ Edited([container EXCEPT
                 !.mdl[1].models_data[1].meshes.mesh_data[1].render_cmds_list =
                     Append(@, cmd)])

\* Mesh::get_render_cmds_list_mut().clear(), on mesh 0
MeshCmdsClear ==
    /\ HasFirstModel
    /\ Edited([container EXCEPT
                 !.mdl[1].models_data[1].meshes.mesh_data[1].render_cmds_list = <<>>])

\* A rebase op that gave c and reached the models of the set reached.
Rebased(op, c, reached) ==
    /\ RState(c, op, r_op = op, IF r_op = op THEN container ELSE c,
              r_dirty \ reached, r_edits)
    /\ UNCHANGED NotRebaseVars

\* Container::rebase
ContainerRebase ==
    Rebased([kind |-> "Container", mdl |-> 0, model |-> 0],
            Container_rebase(container), r_dirty)

\* Mdl::rebase, on get_mdl_mut(i)
MdlRebase(i) ==
    /\ i < Len(container.mdl)
    /\ Rebased([kind |-> "Mdl", mdl |-> i, model |-> 0],
               [container EXCEPT !.mdl[i + 1] = Mdl_rebase(@)],
               {d \in r_dirty : d[1] = i})

\* Model::rebase, on get_mdl_mut(i), get_model_mut(j)
ModelRebase(i, j) ==
    /\ i < Len(container.mdl)
    /\ j < Len(container.mdl[i + 1].models_data)
    /\ Rebased([kind |-> "Model", mdl |-> i, model |-> j],
               [container EXCEPT !.mdl[i + 1].models_data[j + 1] = Model_rebase(@)],
               {<<i, j>>})

----------------------------------------------------------------------------
(* Byte-level codec of the GPU command stream,                              *)
(* subfiles/mdl/model/mesh_list/gpu_command_list.rs.  A byte is a number in *)
(* 0..255, a buffer a sequence of bytes, a 32-bit word the four bytes of    *)
(* its little-endian form.  Result<T, E> is a sequence: Err is <<>>,        *)
(* Ok(v) is <<v>>.                                                          *)

\* Bit n (0 = least significant) of the u32 whose le bytes are w
WordBit(w, n) == (w[(n \div 8) + 1] \div (2 ^ (n % 8))) % 2

\* (u32::from_le_bytes(w) >> shift) & ((1 << width) - 1)
RECURSIVE FieldFrom(_, _, _, _)
FieldFrom(w, shift, width, k) ==
    IF k = width THEN 0
    ELSE WordBit(w, shift + k) * (2 ^ k) + FieldFrom(w, shift, width, k + 1)

WordField(w, shift, width) == FieldFrom(w, shift, width, 0)

\* Bit n of (v << shift), v a u32 below 2^31
ShiftedBit(v, shift, n) ==
    IF n < shift \/ n - shift > 30 THEN 0 ELSE (v \div (2 ^ (n - shift))) % 2

\* Bit n of the bitwise or of the (v << shift), fields a set of <<v, shift>>
OrBit(fields, n) ==
    IF \E f \in fields : ShiftedBit(f[1], f[2], n) = 1 THEN 1 ELSE 0

RECURSIVE OrByte(_, _, _)
OrByte(fields, j, k) ==
    IF k = 8 THEN 0
    ELSE OrBit(fields, 8 * j + k) * (2 ^ k) + OrByte(fields, j, k + 1)

\* (v1 << s1 | v2 << s2 | ...).to_le_bytes()
WordOfFields(fields) == [j \in 1..4 |-> OrByte(fields, j - 1, 0)]

\* `as i16` of a 16-bit value
AsI16(n) == IF n >= 32768 THEN n - 65536 ELSE n

\* (value as u32) & ((1 << width) - 1), value an i16
MaskI16(value, width) == value % (2 ^ width)

\* u32::from_le_bytes, the u32 as its 16-bit halves <<low, high>>
U32_from_le_bytes(w) == <<WordField(w, 0, 16), WordField(w, 16, 16)>>

\* u32::to_le_bytes
U32_to_le_bytes(v) == WordOfFields({<<v[1], 0>>, <<v[2], 16>>})

\* Fixed1_3_6::from_i16: NUMBER_DATA_MASK is 0x7F and SIGN_MASK 0x80, so the
\* sign test is made on a bit the mask has cleared
Fixed1_3_6_from_i16(value) ==
    IF ((value % 128) \div 128) % 2 # 0 THEN (value % 128) - 128
    ELSE value % 128

\* GpuCommand::from_bytes with the from_bytes of each parameter struct.
\* Of the 36 opcodes the model decodes the ten below; the streams of the
\* model hold no other opcode of SIZES.
GpuCommand_from_bytes(op_code, params) ==
    CASE op_code = 0 -> <<GpuNop>>
      [] op_code = 20 ->
            IF Len(params) < 4 THEN <<>>
            ELSE <<MtxRestoreCmd(U32_from_le_bytes(params))>>
      [] op_code = 32 ->
            IF Len(params) < 4 THEN <<>>
            ELSE <<Color(WordField(params, 0, 5), WordField(params, 5, 5),
                         WordField(params, 10, 5))>>
      [] op_code = 35 ->
            IF Len(params) < 8 THEN <<>>
            ELSE <<Vtx16(AsI16(WordField(params, 0, 16)),
                         AsI16(WordField(params, 16, 16)),
                         AsI16(WordField(SubSeq(params, 5, 8), 0, 16)))>>
      [] op_code = 36 ->
            IF Len(params) < 8 THEN <<>>
            ELSE <<Vtx10(Fixed1_3_6_from_i16(WordField(params, 0, 10)),
                         Fixed1_3_6_from_i16(WordField(params, 10, 10)),
                         Fixed1_3_6_from_i16(WordField(params, 20, 10)))>>
      [] op_code = 37 ->
            IF Len(params) < 4 THEN <<>>
            ELSE <<VtxXY(AsI16(WordField(params, 0, 16)),
                         AsI16(WordField(params, 16, 16)))>>
      [] op_code = 38 ->
            IF Len(params) < 4 THEN <<>>
            ELSE <<VtxXZ(AsI16(WordField(params, 0, 16)),
                         AsI16(WordField(params, 16, 16)))>>
      [] op_code = 39 ->
            IF Len(params) < 4 THEN <<>>
            ELSE <<VtxYZ(AsI16(WordField(params, 0, 16)),
                         AsI16(WordField(params, 16, 16)))>>
      [] op_code = 40 ->
            IF Len(params) < 4 THEN <<>>
            ELSE <<VtxDiff(WordField(params, 0, 10), WordField(params, 10, 10),
                           WordField(params, 20, 10))>>
      [] op_code = 64 ->
            IF Len(params) < 1 THEN <<>>
            ELSE <<BeginVtxsCmd(params[1] % 4)>>
      [] op_code = 65 -> <<EndVtxs>>
      [] OTHER -> <<>>

\* GpuCommand::write_params_bytes with the write_bytes of each parameter
\* struct, into a zeroed buffer of buffer_len bytes: the bytes, or Err
write_params_bytes(cmd, buffer_len) ==
    CASE cmd.op \in {"Nop", "EndVtxs"} -> <<[i \in 1..buffer_len |-> 0]>>
      [] cmd.op = "MtxRestore" ->
            IF buffer_len < 4 THEN <<>> ELSE <<U32_to_le_bytes(cmd.index)>>
      [] cmd.op = "Color" ->
            IF buffer_len < 4 THEN <<>>
            ELSE <<WordOfFields({<<cmd.r, 0>>, <<cmd.g, 5>>, <<cmd.b, 10>>})>>
      [] cmd.op = "Vtx16" ->
            IF buffer_len < 8 THEN <<>>
            ELSE <<WordOfFields({<<MaskI16(cmd.x, 16), 0>>,
                                 <<MaskI16(cmd.y, 16), 16>>})
                   \o WordOfFields({<<MaskI16(cmd.z, 16), 0>>})>>
      [] cmd.op = "Vtx10" ->
            IF buffer_len < 8 THEN <<>>
            ELSE <<WordOfFields({<<MaskI16(cmd.x, 10), 0>>,
                                 <<MaskI16(cmd.y, 10), 10>>,
                                 <<MaskI16(cmd.z, 10), 20>>})
                   \o <<0, 0, 0, 0>>>>
      [] cmd.op = "VtxXY" ->
            IF buffer_len < 4 THEN <<>>
            ELSE <<WordOfFields({<<MaskI16(cmd.x, 16), 0>>,
                                 <<MaskI16(cmd.y, 16), 16>>})>>
      [] cmd.op = "VtxXZ" ->
            IF buffer_len < 4 THEN <<>>
            ELSE <<WordOfFields({<<MaskI16(cmd.x, 16), 0>>,
                                 <<MaskI16(cmd.z, 16), 16>>})>>
      [] cmd.op = "VtxYZ" ->
            IF buffer_len < 4 THEN <<>>
            ELSE <<WordOfFields({<<MaskI16(cmd.y, 16), 0>>,
                                 <<MaskI16(cmd.z, 16), 16>>})>>
      [] cmd.op = "VtxDiff" ->
            IF buffer_len < 4 THEN <<>>
            ELSE <<WordOfFields({<<MaskI16(cmd.x, 10), 0>>,
                                 <<MaskI16(cmd.y, 10), 10>>,
                                 <<MaskI16(cmd.z, 10), 20>>})>>
      [] cmd.op = "BeginVtxs" ->
            IF buffer_len < 1 THEN <<>>
            ELSE <<[i \in 1..buffer_len |->
                       IF i = 1 THEN cmd.primitive_type % 4 ELSE 0]>>

\* The outcome of a decode or an encode: "ok" with its value, "err" for a
\* returned Err, "panic" for an index or a slice out of range.
Outcome(result, value) == [result |-> result, value |-> value]

\* The loop of GpuCommandList::from_bytes from position pos on: ops holds
\* the opcodes of the current word still to decode, acc the commands so far.
RECURSIVE GpuDecode(_, _, _, _)
GpuDecode(bytes, pos, ops, acc) ==
    IF ops = <<>> THEN
        IF pos >= Len(bytes) THEN Outcome("ok", acc)
        ELSE IF pos + 4 > Len(bytes) THEN Outcome("panic", <<>>)
        ELSE GpuDecode(bytes, pos + 4, SubSeq(bytes, pos + 1, pos + 4), acc)
    ELSE IF num_params(Head(ops)) = -1 THEN Outcome("err", <<>>)
    ELSE IF pos + 4 * num_params(Head(ops)) > Len(bytes)
        THEN Outcome("panic", <<>>)
    ELSE LET command == GpuCommand_from_bytes(Head(ops),
                SubSeq(bytes, pos + 1, pos + 4 * num_params(Head(ops))))
         IN  IF command = <<>> THEN Outcome("err", <<>>)
             ELSE GpuDecode(bytes, pos + 4 * num_params(Head(ops)), Tail(ops),
                            acc \o command)

\* GpuCommandList::from_bytes
GpuCommandList_from_bytes(bytes) ==
    IF Len(bytes) < 4 THEN Outcome("err", <<>>)
    ELSE GpuDecode(bytes, 0, <<>>, <<>>)

\* The parameter bytes of the commands of one word, or Err
RECURSIVE GroupParams(_)
GroupParams(group) ==
    IF group = <<>> THEN <<<<>>>>
    ELSE LET params == write_params_bytes(Head(group),
                           4 * num_params(GpuCommand_op_code(Head(group))))
             rest == GroupParams(Tail(group))
         IN  IF params = <<>> \/ rest = <<>> THEN <<>>
             ELSE <<params[1] \o rest[1]>>

\* The loop of GpuCommandList::write_bytes over the padded commands: the
\* bytes written, word after word, or Err
RECURSIVE GpuEncode(_)
GpuEncode(padded) ==
    IF Len(padded) < 4 THEN <<<<>>>>
    ELSE LET params == GroupParams(SubSeq(padded, 1, 4))
             rest == GpuEncode(SubSeq(padded, 5, Len(padded)))
         IN  IF params = <<>> \/ rest = <<>> THEN <<>>
             ELSE <<[i \in 1..4 |-> GpuCommand_op_code(padded[i])]
                    \o params[1] \o rest[1]>>

\* A buffer of buffer_len zero bytes with data written at its start
Written(data, buffer_len) ==
    [i \in 1..buffer_len |-> IF i <= Len(data) THEN data[i] ELSE 0]

\* GpuCommandList::write_bytes into a zeroed buffer of buffer_len bytes
GpuCommandList_write_bytes(cmds, buffer_len) ==
    LET written ==
            GpuEncode(cmds \o [i \in 1..nop_padding_ammount(cmds) |-> GpuNop])
    IN  IF written = <<>> THEN Outcome("err", <<>>)
        ELSE IF Len(written[1]) > buffer_len THEN Outcome("panic", <<>>)
        ELSE Outcome("ok", Written(written[1], buffer_len))

----------------------------------------------------------------------------
(* subfiles/mdl/model/mesh_list/mod.rs: one Mesh, from its bytes and back.  *)

\* The value of a u32 kept as <<low, high>>, for the offsets and lengths of
\* the model, which are far below 2^31
U32_value(v) == v[1] + 65536 * v[2]

\* n as u32, as <<low, high>>
U32_of(n) == <<n % 65536, (n \div 65536) % 65536>>

\* The Mesh that from_bytes returns once the header fields are read: the
\* check of the length against cmds_offset + cmds_len, then the command list
Mesh_decoded(bytes, cmds_offset, cmds_len) ==
    IF Len(bytes) < cmds_offset + cmds_len THEN Outcome("err", <<>>)
    ELSE LET list == GpuCommandList_from_bytes(
                        SubSeq(bytes, cmds_offset + 1, cmds_offset + cmds_len))
         IN  IF list.result # "ok" THEN Outcome(list.result, <<>>)
             ELSE Outcome("ok",
                    [dummy |-> WordField(SubSeq(bytes, 1, 2), 0, 16),
                     size |-> WordField(SubSeq(bytes, 3, 4), 0, 16),
                     unknown |-> U32_from_le_bytes(SubSeq(bytes, 5, 8)),
                     cmds_offset |-> cmds_offset,
                     cmds_len |-> cmds_len,
                     render_cmds_list |-> list.value])

\* Mesh::from_bytes
Mesh_from_bytes(bytes) ==
    IF Len(bytes) < Mesh_SIZE THEN Outcome("err", <<>>)
    ELSE Mesh_decoded(bytes,
            U32_value(U32_from_le_bytes(SubSeq(bytes, 9, 12))),
            U32_value(U32_from_le_bytes(SubSeq(bytes, 13, 16))))

\* The 16 header bytes Mesh::write_bytes writes: cmds_len is the stored field
Mesh_header_bytes(m) ==
    WordOfFields({<<m.dummy, 0>>, <<m.size, 16>>})
      \o U32_to_le_bytes(m.unknown)
      \o U32_to_le_bytes(U32_of(m.cmds_offset))
      \o U32_to_le_bytes(U32_of(m.cmds_len))

\* buffer with data copied to buffer[offset .. offset + data.len()]
Patch(buffer, offset, data) ==
    [i \in 1..Len(buffer) |->
        IF i > offset /\ i <= offset + Len(data) THEN data[i - offset]
        ELSE buffer[i]]

\* Mesh::write_bytes into a zeroed buffer of buffer_len bytes
Mesh_write_bytes(m, buffer_len) ==
    IF buffer_len < Mesh_SIZE THEN Outcome("err", <<>>)
    ELSE IF buffer_len < m.cmds_offset + GpuCommandList_size(m.render_cmds_list)
        THEN Outcome("err", <<>>)
    ELSE LET list == GpuCommandList_write_bytes(m.render_cmds_list,
                        GpuCommandList_size(m.render_cmds_list))
         IN  IF list.result # "ok" THEN Outcome(list.result, <<>>)
             ELSE Outcome("ok",
                    Patch(Written(Mesh_header_bytes(m), buffer_len),
                          m.cmds_offset, list.value))

\* The opcode words of the command streams of the model: Nops; BeginVtxs,
\* Vtx16, EndVtxs; Color, VtxDiff, MtxRestore; VtxXY, VtxXZ, VtxYZ; a Vtx10;
\* and 0x01, which SIZES gives no parameter count.
OpWords ==
    { <<0, 0, 0, 0>>, <<64, 35, 65, 0>>, <<32, 40, 20, 0>>,
      <<37, 38, 39, 65>>, <<36, 0, 0, 0>>, <<1, 0, 0, 0>> }

\* The parameter words of the command streams of the model
ParamWords == { <<0, 0, 0, 0>>, <<255, 255, 255, 255>>, <<1, 128, 2, 64>> }

\* The number of parameter words of an opcode word (0 for an opcode that
\* SIZES rejects)
RECURSIVE WordsOf(_)
WordsOf(ops) ==
    IF ops = <<>> THEN 0
    ELSE (IF num_params(Head(ops)) = -1 THEN 0 ELSE num_params(Head(ops)))
         + WordsOf(Tail(ops))

RECURSIVE Flatten(_)
Flatten(seqs) == IF seqs = <<>> THEN <<>> ELSE Head(seqs) \o Flatten(Tail(seqs))

\* The command streams: every opcode word with each choice of its parameter
\* words, two words of Nops, a BeginVtxs cut before its parameter, and a
\* word of Nops followed by half an opcode word.
GpuStreams ==
    UNION { { ops \o Flatten(ws) : ws \in [1..WordsOf(ops) -> ParamWords] } :
            ops \in OpWords }
      \cup { <<0, 0, 0, 0, 0, 0, 0, 0>>, <<64, 0, 0, 0>>,
             <<0, 0, 0, 0, 0, 0>> }

\* A Mesh header (dummy 0, size 0x10, unknown 0x80000007, cmds_offset 16)
\* with the given cmds_len, followed by the command stream
MeshBytes(stream, cmds_len) ==
    <<0, 0, 16, 0, 7, 0, 0, 128, 16, 0, 0, 0, cmds_len, 0, 0, 0>> \o stream

\* The buffers handed to Mesh::from_bytes: each stream under a header that
\* gives its length, and headers whose cmds_len is short of a word, beyond
\* the buffer, or cut.
MeshBuffers ==
    { MeshBytes(stream, Len(stream)) : stream \in GpuStreams }
      \cup { MeshBytes(<<0, 0, 0, 0>>, 2), MeshBytes(<<0, 0, 0, 0>>, 8),
             <<0, 0, 16, 0>> }

\* The commands pushed to the list of the Mesh
MeshEditCommands == { Vtx10(32, 64, 96), Vtx16(4096, -2048, 0) }

\* The vectors handed to extend
MeshEditVectors == { <<BeginVtxs, EndVtxs>> }

NoOutcome == Outcome("none", <<>>)

MState(m, bytes, phase, result, fresh, rebased, edits, written, reread) ==
    /\ m_mesh' = m
    /\ m_bytes' = bytes
    /\ m_phase' = phase
    /\ m_result' = result
    /\ m_fresh' = fresh
    /\ m_rebased' = rebased
    /\ m_edits' = edits
    /\ m_written' = written
    /\ m_reread' = reread

\* No Mesh: the state of the Mesh variables in the other specifications
MIdle ==
    /\ m_mesh = <<>>
    /\ m_bytes = <<>>
    /\ m_phase = "idle"
    /\ m_result = "none"
    /\ m_fresh = FALSE
    /\ m_rebased = FALSE
    /\ m_edits = 0
    /\ m_written = NoOutcome
    /\ m_reread = NoOutcome

\* A buffer, before Mesh::from_bytes is called on it
MInit ==
    /\ m_mesh = <<>>
    /\ m_bytes \in MeshBuffers
    /\ m_phase = "bytes"
    /\ m_result = "none"
    /\ m_fresh = FALSE
    /\ m_rebased = FALSE
    /\ m_edits = 0
    /\ m_written = NoOutcome
    /\ m_reread = NoOutcome

\* Mesh::from_bytes(m_bytes)
MeshFromBytes ==
    /\ m_phase = "bytes"
    /\ LET decoded == Mesh_from_bytes(m_bytes)
       IN  MState(decoded.value, m_bytes,
                  IF decoded.result = "ok" THEN "live" ELSE "failed",
                  decoded.result, decoded.result = "ok", FALSE, 0,
                  NoOutcome, NoOutcome)
    /\ UNCHANGED NotMeshVars

\* An edit of the command list, which leaves the header fields as they are
MeshEdited(cmds) ==
    /\ m_phase = "live"
    /\ m_edits < MaxMeshEdits
    /\ MState([m_mesh EXCEPT !.render_cmds_list = cmds], m_bytes, m_phase,
              m_result, FALSE, FALSE, m_edits + 1, NoOutcome, NoOutcome)
    /\ UNCHANGED NotMeshVars

\* Mesh::get_render_cmds_list_mut().push(cmd)
MeshListPush(cmd) == MeshEdited(Append(m_mesh.render_cmds_list, cmd))

\* Mesh::get_render_cmds_list_mut().extend(commands)
MeshListExtend(commands) == MeshEdited(m_mesh.render_cmds_list \o commands)

\* Mesh::get_render_cmds_list_mut().clear()
MeshListClear == MeshEdited(<<>>)

\* Mesh::rebase
MeshRebase ==
    /\ m_phase = "live"
    /\ ~m_rebased
    /\ MState(Mesh_rebase(m_mesh), m_bytes, m_phase, m_result, m_fresh, TRUE,
              m_edits, NoOutcome, NoOutcome)
    /\ UNCHANGED NotMeshVars

\* Mesh::write_bytes into a zeroed buffer of Mesh::size() bytes
MeshWrite ==
    /\ m_phase = "live"
    /\ m_written = NoOutcome
    /\ MState(m_mesh, m_bytes, m_phase, m_result, m_fresh, m_rebased, m_edits,
              Mesh_write_bytes(m_mesh, Mesh_size(m_mesh)), NoOutcome)
    /\ UNCHANGED NotMeshVars

\* The command bytes of a buffer that Mesh::write_bytes wrote for m
WrittenCommands(m, buffer) ==
    SubSeq(buffer, m.cmds_offset + 1,
           m.cmds_offset + GpuCommandList_size(m.render_cmds_list))

\* GpuCommandList::from_bytes on the command bytes written
MeshReread ==
    /\ m_phase = "live"
    /\ m_written.result = "ok"
    /\ m_reread = NoOutcome
    /\ MState(m_mesh, m_bytes, m_phase, m_result, m_fresh, m_rebased, m_edits,
              m_written,
              GpuCommandList_from_bytes(WrittenCommands(m_mesh, m_written.value)))
    /\ UNCHANGED NotMeshVars

----------------------------------------------------------------------------
(* Byte-level codec of the render command stream,                           *)
(* subfiles/mdl/model/render_command_list.rs.  A decoded command carries    *)
(* every field of its data struct.                                          *)

\* CalculateSkinningEquationData::from_bytes, terms: the num_terms triples
\* (matrix_index, inv_bind_index, weight) from data[2] on
SkinningTerms(data, num_terms) ==
    [i \in 1..num_terms |->
        [matrix_index |-> Byte(data, 2 + (i - 1) * 3),
         inv_bind_index |-> Byte(data, 2 + (i - 1) * 3 + 1),
         weight |-> Byte(data, 2 + (i - 1) * 3 + 2)]]

\* RenderCommand::from_bytes with the from_bytes of each data struct
RenderCommand_from_bytes(op_code, tail) ==
    CASE CommandCode(op_code) = 0 ->
            IF CommandSubtype(op_code) \notin {0, 64, 128} THEN <<>>
            ELSE <<[op |-> "Nop", subtype |-> CommandSubtype(op_code)]>>
      [] CommandCode(op_code) = 1 -> <<End>>
      [] CommandCode(op_code) \in {2, 12, 13} ->
            IF Len(tail) < 2 THEN <<>>
            ELSE <<[op |-> CASE CommandCode(op_code) = 2 -> "Unknown0x02"
                             [] CommandCode(op_code) = 12 -> "Unknown0x0C"
                             [] CommandCode(op_code) = 13 -> "Unknown0x0D",
                    unknown_0 |-> Byte(tail, 0), unknown_1 |-> Byte(tail, 1)]>>
      [] CommandCode(op_code) = 3 ->
            IF Len(tail) < 1 THEN <<>>
            ELSE <<LoadMatrixFromStack(Byte(tail, 0))>>
      [] CommandCode(op_code) = 4 ->
            IF Len(tail) < 1 THEN <<>>
            ELSE IF CommandSubtype(op_code) \notin {0, 32, 64} THEN <<>>
            ELSE <<[op |-> "BindMaterial", subtype |-> CommandSubtype(op_code),
                    material_index |-> Byte(tail, 0)]>>
      [] CommandCode(op_code) = 5 ->
            IF Len(tail) < 1 THEN <<>>
            ELSE <<[op |-> "DrawMesh", mesh_index |-> Byte(tail, 0)]>>
      [] CommandCode(op_code) = 6 ->
            IF MulData_from_bytes(op_code, tail) = <<>> THEN <<>>
            ELSE <<MulData_from_bytes(op_code, tail)[1]
                   @@ [parent_index |-> Byte(tail, 1), unknown |-> Byte(tail, 2)]>>
      [] CommandCode(op_code) = 7 ->
            IF Len(tail) < 1 THEN <<>>
            ELSE <<[op |-> "Unknown0x07", subtype |-> CommandSubtype(op_code),
                    unknown |-> Byte(tail, 0)]>>
      [] CommandCode(op_code) = 8 ->
            IF Len(tail) < 1 THEN <<>>
            ELSE <<[op |-> "Unknown0x08", unknown |-> Byte(tail, 0)]>>
      [] CommandCode(op_code) = 9 ->
            IF Len(tail) < 2 THEN <<>>
            ELSE IF Len(tail) < 2 + Byte(tail, 1) * 3 THEN <<>>
            ELSE <<[op |-> "CalculateSkinningEquation",
                    store_index |-> Byte(tail, 0), num_terms |-> Byte(tail, 1),
                    terms |-> SkinningTerms(tail, Byte(tail, 1))]>>
      [] CommandCode(op_code) = 11 ->
            IF CommandSubtype(op_code) \notin {0, 32} THEN <<>>
            ELSE <<[op |-> "Scale", subtype |-> CommandSubtype(op_code)]>>
      [] OTHER -> <<>>

\* A decoding loop that returns the commands read so far when the buffer is
\* exhausted before an End
RECURSIVE RenderDecode_to_exhaustion(_, _, _)
RenderDecode_to_exhaustion(bytes, pos, acc) ==
    LET render_command ==
            RenderCommand_from_bytes(bytes[pos + 1],
                                     SubSeq(bytes, pos + 2, Len(bytes)))
    IN  IF render_command = <<>> THEN Outcome("err", <<>>)
        ELSE IF render_command[1].op = "End"
            THEN Outcome("ok", acc \o render_command)
        ELSE IF pos + RenderCommand_size(render_command[1]) >= Len(bytes)
            THEN Outcome("ok", acc \o render_command)
        ELSE RenderDecode_to_exhaustion(bytes,
                pos + RenderCommand_size(render_command[1]), acc \o render_command)

\* The loop of RenderCommandList::from_bytes from position pos on
RECURSIVE RenderDecode(_, _, _)
RenderDecode(bytes, pos, acc) ==
    LET render_command ==
            RenderCommand_from_bytes(bytes[pos + 1],
                                     SubSeq(bytes, pos + 2, Len(bytes)))
    IN  IF render_command = <<>> THEN Outcome("err", <<>>)
        ELSE IF render_command[1].op = "End"
            THEN Outcome("ok", acc \o render_command)
        ELSE IF pos + RenderCommand_size(render_command[1]) >= Len(bytes)
            THEN Outcome("err", <<>>)
        ELSE RenderDecode(bytes, pos + RenderCommand_size(render_command[1]),
                          acc \o render_command)

\* RenderCommandList::from_bytes
RenderCommandList_from_bytes(bytes) ==
    IF Len(bytes) < 1 THEN Outcome("err", <<>>)
    ELSE RenderDecode(bytes, 0, <<>>)

\* RenderCommand::command_code: the kind or'ed with the stored subtype
RenderCommand_command_code(cmd) ==
    CASE cmd.op = "Nop" -> 0 + cmd.subtype
      [] cmd.op = "End" -> 1
      [] cmd.op = "Unknown0x02" -> 2
      [] cmd.op = "LoadMatrixFromStack" -> 3
      [] cmd.op = "BindMaterial" -> 4 + cmd.subtype
      [] cmd.op = "DrawMesh" -> 5
      [] cmd.op = "MulCurrentMatrixWithBoneMatrix" -> 6 + cmd.subtype
      [] cmd.op = "Unknown0x07" -> 7 + cmd.subtype
      [] cmd.op = "Unknown0x08" -> 8
      [] cmd.op = "CalculateSkinningEquation" -> 9
      [] cmd.op = "Scale" -> 11 + cmd.subtype
      [] cmd.op = "Unknown0x0C" -> 12
      [] cmd.op = "Unknown0x0D" -> 13

\* The bytes the write_bytes of the data struct of cmd puts at buffer[1..]
RenderCommand_data_bytes(cmd) ==
    CASE cmd.op \in {"Nop", "End"} -> <<>>
      [] cmd.op \in {"Unknown0x02", "Unknown0x0C", "Unknown0x0D"} ->
            <<cmd.unknown_0, cmd.unknown_1>>
      [] cmd.op = "LoadMatrixFromStack" -> <<cmd.stack_index>>
      [] cmd.op = "BindMaterial" -> <<cmd.material_index>>
      [] cmd.op = "DrawMesh" -> <<cmd.mesh_index>>
      [] cmd.op = "MulCurrentMatrixWithBoneMatrix" ->
            <<cmd.bone_index, cmd.parent_index, cmd.unknown>>
              \o cmd.param_3 \o cmd.param_4
      [] cmd.op \in {"Unknown0x07", "Unknown0x08"} -> <<cmd.unknown>>
      [] cmd.op = "CalculateSkinningEquation" ->
            <<cmd.store_index, cmd.num_terms>>
              \o Flatten([i \in 1..Len(cmd.terms) |->
                            <<cmd.terms[i].matrix_index,
                              cmd.terms[i].inv_bind_index,
                              cmd.terms[i].weight>>])
      [] cmd.op = "Scale" -> <<cmd.subtype>>

\* RenderCommand::write_bytes into buffer[pos..]: the buffer, or Err.
\* ScaleData::write_bytes is handed buffer[1..] and wants one byte of it.
RenderCommand_write_bytes(cmd, buffer, pos) ==
    IF Len(buffer) - pos < RenderCommand_size(cmd) THEN <<>>
    ELSE IF cmd.op = "Scale" /\ Len(buffer) - pos < 2 THEN <<>>
    ELSE <<Patch(buffer, pos,
                 <<RenderCommand_command_code(cmd)>> \o RenderCommand_data_bytes(cmd))>>

\* The loop of RenderCommandList::write_bytes from command k on
RECURSIVE RenderEncode(_, _, _, _)
RenderEncode(cmds, k, buffer, pos) ==
    IF k > Len(cmds) THEN Outcome("ok", buffer)
    ELSE IF pos + RenderCommand_size(cmds[k]) > Len(buffer)
        THEN Outcome("err", <<>>)
    ELSE LET written == RenderCommand_write_bytes(cmds[k], buffer, pos)
         IN  IF written = <<>> THEN Outcome("err", <<>>)
             ELSE RenderEncode(cmds, k + 1, written[1],
                               pos + RenderCommand_size(cmds[k]))

\* RenderCommandList::write_bytes into a zeroed buffer of buffer_len bytes
RenderCommandList_write_bytes(cmds, buffer_len) ==
    RenderEncode(cmds, 1, [i \in 1..buffer_len |-> 0], 0)

\* The encodings of single commands the streams of the model are made of:
\* each of the 12 kinds other than End; Nop, BindMaterial, Mul, Unknown0x07
\* and Scale with a subtype, LoadMatrixFromStack with subtype bits; a Nop
\* with a subtype from_bytes rejects and the unassigned opcode 0x0A; an
\* Unknown0x02 and a CalculateSkinningEquation short of payload.
StreamCommands ==
    { <<0>>, <<2, 7, 8>>, <<3, 5>>, <<4, 1>>, <<5, 0>>, <<6, 1, 2, 3>>,
      <<7, 9>>, <<8, 9>>, <<9, 1, 1, 2, 3, 4>>, <<11>>, <<12, 1, 2>>,
      <<13, 1, 2>>,
      <<64>>, <<36, 1>>, <<102, 1, 2, 3, 4, 5>>, <<71, 9>>, <<43>>, <<35, 5>>,
      <<32>>, <<10>>,
      <<2, 7>>, <<9, 3, 2, 1>> }

\* The ends of the streams: nothing, an End, and an End with subtype bits
\* followed by one more byte
StreamEnds == { <<>>, <<1>>, <<33, 170>> }

\* The buffers handed to RenderCommandList::from_bytes
RenderStreams ==
    { Flatten(cs) \o e :
        cs \in UNION { [1..n -> StreamCommands] : n \in 0..MaxStreamCmds },
        e \in StreamEnds }

CState(bytes, list, written) ==
    /\ rc_bytes' = bytes
    /\ rc_list' = list
    /\ rc_written' = written

\* No stream: the state of the codec variables in the other specifications
CIdle ==
    /\ rc_bytes = <<>>
    /\ rc_list = Outcome("idle", <<>>)
    /\ rc_written = NoOutcome

\* A buffer, before RenderCommandList::from_bytes is called on it
CInit ==
    /\ rc_bytes \in RenderStreams
    /\ rc_list = NoOutcome
    /\ rc_written = NoOutcome

\* RenderCommandList::from_bytes(rc_bytes)
RenderFromBytes ==
    /\ rc_list = NoOutcome
    /\ CState(rc_bytes, RenderCommandList_from_bytes(rc_bytes), NoOutcome)
    /\ UNCHANGED NotCodecVars

\* RenderCommandList::write_bytes into a zeroed buffer of size() bytes
RenderWriteBytes ==
    /\ rc_list.result = "ok"
    /\ rc_written = NoOutcome
    /\ CState(rc_bytes, rc_list,
              RenderCommandList_write_bytes(rc_list.value,
                  RenderCommandList_size(rc_list.value)))
    /\ UNCHANGED NotCodecVars

----------------------------------------------------------------------------
(* subfiles/mdl/model/material_list.rs: one MaterialIdxList record, decoded *)
(* from the buffer of its MaterialList and encoded into a buffer of the     *)
(* same length.                                                             *)

\* MaterialIdxList::from_bytes, on the slice that begins at the record
MaterialIdxList_from_bytes(bytes) ==
    IF Len(bytes) < 4 THEN <<>>
    ELSE IF Len(bytes) < U16(WordField(SubSeq(bytes, 1, 2), 0, 16) + bytes[3])
        THEN <<>>
    ELSE <<[offset |-> WordField(SubSeq(bytes, 1, 2), 0, 16),
            count |-> bytes[3], dummy |-> bytes[4], indices |-> <<>>]>>

\* MaterialIdxList::read_indices
read_indices(pairing, material_list_bytes) ==
    IF Len(material_list_bytes) < U16(pairing.offset + pairing.count) THEN <<>>
    ELSE <<[pairing EXCEPT !.indices =
                [i \in 1..pairing.count |->
                    material_list_bytes[pairing.offset + (i - 1) + 1]]]>>

\* MaterialIdxList::write_bytes, into the slice that begins at the record
MaterialIdxList_write_bytes(pairing, buffer) ==
    IF Len(buffer) <= pairing.offset THEN <<>>
    ELSE <<Patch(buffer, 0,
                 WordOfFields({<<pairing.offset, 0>>, <<pairing.count, 16>>,
                               <<pairing.dummy, 24>>}))>>

\* MaterialIdxList::write_indices
write_indices(pairing, material_list_buffer) ==
    IF Len(material_list_buffer) < U16(pairing.offset + pairing.count) THEN <<>>
    ELSE <<Patch(material_list_buffer, pairing.offset, pairing.indices)>>

\* The record as NameList::from_bytes and read_indices decode it: from_bytes
\* on bytes[pos..], then read_indices on the whole buffer
PairingDecoded(bytes, pos) ==
    LET pairing == MaterialIdxList_from_bytes(SubSeq(bytes, pos + 1, Len(bytes)))
    IN  IF pairing = <<>> THEN Outcome("err", <<>>)
        ELSE IF read_indices(pairing[1], bytes) = <<>> THEN Outcome("err", <<>>)
        ELSE Outcome("ok", read_indices(pairing[1], bytes)[1])

\* The record as NameList::write_bytes and write_indices encode it:
\* write_bytes on buffer[pos..], then write_indices on the whole buffer
PairingEncoded(pairing, buffer, pos) ==
    LET written == MaterialIdxList_write_bytes(pairing,
                        SubSeq(buffer, pos + 1, Len(buffer)))
    IN  IF written = <<>> THEN Outcome("err", <<>>)
        ELSE IF write_indices(pairing, Patch(buffer, pos, written[1])) = <<>>
            THEN Outcome("err", <<>>)
        ELSE Outcome("ok", write_indices(pairing, Patch(buffer, pos, written[1]))[1])

\* A MaterialList buffer of len bytes, byte i holding 16 + i, with the
\* record (offset, count, dummy 0) at pos
ListBytes(len, pos, offset, count) ==
    Patch([i \in 1..len |-> 16 + i], pos, <<offset % 256, offset \div 256, count, 0>>)

IState(bytes, pos, list, written) ==
    /\ ml_bytes' = bytes
    /\ ml_pos' = pos
    /\ idx_list' = list
    /\ idx_written' = written

\* No record: the state of these variables in the other specifications
IIdle ==
    /\ ml_bytes = <<>>
    /\ ml_pos = 0
    /\ idx_list = Outcome("idle", <<>>)
    /\ idx_written = NoOutcome

\* A buffer with a record in it, before it is decoded
IInit ==
    /\ \E len \in {MaxListBytes - 4, MaxListBytes} :
       \E pos \in {0, 4, 8} :
       \E offset \in 0..MaxListBytes :
       \E count \in 0..MaxIdxCount :
            /\ ml_bytes = ListBytes(len, pos, offset, count)
            /\ ml_pos = pos
    /\ idx_list = NoOutcome
    /\ idx_written = NoOutcome

\* NameList::from_bytes reads the record, read_indices its indices
PairingDecode ==
    /\ idx_list = NoOutcome
    /\ IState(ml_bytes, ml_pos, PairingDecoded(ml_bytes, ml_pos), NoOutcome)
    /\ UNCHANGED NotIdxVars

\* NameList::write_bytes writes the record, write_indices its indices, into
\* a zeroed buffer as long as the one decoded
PairingEncode ==
    /\ idx_list.result = "ok"
    /\ idx_written = NoOutcome
    /\ IState(ml_bytes, ml_pos, idx_list,
              PairingEncoded(idx_list.value, [i \in 1..Len(ml_bytes) |-> 0], ml_pos))
    /\ UNCHANGED NotIdxVars

----------------------------------------------------------------------------
(* subfiles/mdl/model/material_list.rs: one MaterialList, as from_bytes     *)
(* returns it, and its rebase. The fields of a MaterialList are private and *)
(* it has no editing method: a list is what a buffer decoded to, with any   *)
(* offsets and stored sizes, and count = indices.len() in every pairing.    *)

\* A pairing as read_indices leaves it: count indices read at offset
DecodedPairing(offset, count) ==
    [offset |-> offset, count |-> count, indices |-> [i \in 1..count |-> i - 1]]

\* The sequences of at most MaxPairings pairings with at most MaxIndices
\* indices each, every offset the stale one
DecodedPairings(stale) ==
    UNION { [1..n -> { DecodedPairing(stale, c) : c \in 0..MaxIndices }] :
            n \in 0..MaxPairings }

\* The stored offsets and sizes of the buffer a list was decoded from
StaleOffsets == {0, 200}

LState(list, phase) ==
    /\ mat_list' = list
    /\ mat_phase' = phase

\* No list: the state of these variables in the other specifications
LIdle ==
    /\ mat_list = <<>>
    /\ mat_phase = "none"

LInit ==
    /\ \E stale \in StaleOffsets :
       \E n \in 0..MaxMaterials :
       \E textures \in DecodedPairings(stale) :
       \E palettes \in DecodedPairings(stale) :
            mat_list =
                [texture_pairings_offset |-> stale,
                 palette_pairings_offset |-> stale,
                 materials |-> NameListOf(stale, 4, [i \in 1..n |-> stale + 4 * (n - i)]),
                 texture_pairing_list |-> NameListOf(stale, 4, textures),
                 palette_pairing_list |-> NameListOf(stale, 4, palettes)]
    /\ mat_phase = "decoded"

\* MaterialList::rebase
MaterialListRebase ==
    /\ mat_phase = "decoded"
    /\ LState(MaterialList_rebase(mat_list), "rebased")
    /\ UNCHANGED NotLayoutVars

----------------------------------------------------------------------------
(* container.rs: Container::from_bytes on one buffer. *)

\* u16::from_le_bytes and u32::from_le_bytes of the bytes at a 0-based
\* position; the u32 as <<low half, high half>>
U16At(bytes, pos) == bytes[pos + 1] + 256 * bytes[pos + 2]

U32At(bytes, pos) == <<U16At(bytes, pos), U16At(bytes, pos + 2)>>

\* &bytes[from..]
SliceFrom(bytes, from) == SubSeq(bytes, from + 1, Len(bytes))

\* The stamps, as bytes
StampMDL == <<77, 68, 76, 48>>
StampTEX == <<84, 69, 88, 48>>
StampJNT == <<74, 78, 84, 48>>
StampPAT == <<80, 65, 84, 48>>
StampSRT == <<83, 82, 84, 48>>

\* Type::from_stamp
Type_from_stamp(stamp) ==
    IF Len(stamp) # 4 THEN None
    ELSE CASE stamp = StampMDL -> Some("MDL")
           [] stamp = StampTEX -> Some("TEX")
           [] stamp = StampJNT -> Some("JNT")
           [] stamp = StampPAT -> Some("PAT")
           [] stamp = StampSRT -> Some("SRT")
           [] OTHER -> None

\* Header::from_bytes: the fields the decoding goes on with
Header_from_bytes(bytes) ==
    IF Len(bytes) < Header_SIZE THEN None
    ELSE Some([filesize |-> U32At(bytes, 8), header_size |-> U16At(bytes, 12),
               num_subfiles |-> U16At(bytes, 14)])

\* Container::read_subfile_offsets_from_bytes
read_subfile_offsets_from_bytes(bytes, num_subfiles) ==
    IF Len(bytes) < num_subfiles * 4 THEN None
    ELSE Some([i \in 1..num_subfiles |-> U32At(bytes, 4 * (i - 1))])

\* NameList::from_bytes of a list of models, up to the data: the checks of
\* the length and of the stored size, Unknown::from_bytes with its unchecked
\* reads of count values, the unchecked read of element_size and
\* data_section_size at unknown_size. A list with no element is complete
\* there; the decoding of elements, names and models that follows for
\* count > 0 is outside this model ("models").
NameList_from_bytes_outcome(bytes) ==
    IF Len(bytes) < 4 THEN "err"
    ELSE IF U16At(bytes, 2) > Len(bytes) THEN "err"
    ELSE IF Len(bytes) - 4 < UnknownHeader_SIZE THEN "err"
    ELSE IF bytes[2] > 0 /\ 4 + UnknownHeader_SIZE + 4 * bytes[2] > Len(bytes) THEN "panic"
    ELSE IF U16At(bytes, 6) + 3 >= Len(bytes) THEN "panic"
    ELSE IF bytes[2] = 0 THEN "ok"
    ELSE "models"

\* Mdl::from_bytes: &bytes[..filesize] and then &bytes[8..] of it, with no
\* check that filesize reaches 8
Mdl_from_bytes_outcome(bytes) ==
    IF Len(bytes) < 8 THEN "err"
    ELSE LET filesize == U32At(bytes, 4)
         IN  IF filesize[2] > 0 \/ Len(bytes) < filesize[1] THEN "err"
             ELSE IF filesize[1] < 8 THEN "panic"
             ELSE NameList_from_bytes_outcome(SubSeq(bytes, 9, filesize[1]))

\* Tex::from_bytes: the check of the length; the decoding of the lists that
\* follows is outside this model ("textures").
Tex_from_bytes_outcome(bytes) ==
    IF Len(bytes) < Tex_MIN_LEN THEN "err" ELSE "textures"

\* Jnt::from_bytes returns Ok(Jnt {}) for any bytes
Jnt_from_bytes_outcome(bytes) == "ok"

\* The match on subfile_type of read_files. Pat and Srt are placeholders as
\* Jnt is: zero-size markers that any bytes decode to.
Subfile_from_bytes_outcome(subfile_type, bytes) ==
    CASE subfile_type = "MDL" -> Mdl_from_bytes_outcome(bytes)
      [] subfile_type = "TEX" -> Tex_from_bytes_outcome(bytes)
      [] subfile_type \in {"JNT", "PAT", "SRT"} -> Jnt_from_bytes_outcome(bytes)

\* The test of read_files on an offset: (offset + 3) >= bytes.len()
OffsetOutOfBounds(offset, len) == offset[2] > 0 \/ offset[1] + 3 >= len

\* Container::read_files from the k-th offset on: the types pushed to
\* sorted_indices so far are in done
RECURSIVE ReadFilesFrom(_, _, _, _)
ReadFilesFrom(bytes, offsets, k, done) ==
    IF k > Len(offsets) THEN Outcome("ok", done)
    ELSE IF OffsetOutOfBounds(offsets[k], Len(bytes)) THEN Outcome("err", <<>>)
    ELSE LET offset == offsets[k][1]
             subfile_type == Type_from_stamp(SubSeq(bytes, offset + 1, offset + 4))
         IN  IF subfile_type = None THEN Outcome("err", <<>>)
             ELSE LET file == Subfile_from_bytes_outcome(Unwrap(subfile_type),
                                                         SliceFrom(bytes, offset))
                  IN  IF file # "ok" THEN Outcome(file, <<>>)
                      ELSE ReadFilesFrom(bytes, offsets, k + 1,
                                         Append(done, Unwrap(subfile_type)))

\* Container::read_files
read_files(bytes, offsets) == ReadFilesFrom(bytes, offsets, 1, <<>>)

\* Container::from_bytes
Container_from_bytes(bytes) ==
    IF Len(bytes) < Header_SIZE THEN Outcome("err", <<>>)
    ELSE LET header == Unwrap(Header_from_bytes(bytes))
         IN  IF Len(bytes) < Header_SIZE + header.num_subfiles * 4
             THEN Outcome("err", <<>>)
             ELSE LET offsets == read_subfile_offsets_from_bytes(
                                    SliceFrom(bytes, 16), header.num_subfiles)
                      files == read_files(bytes, Unwrap(offsets))
                  IN  IF files.result # "ok" THEN Outcome(files.result, <<>>)
                      ELSE Outcome("ok", [header |-> header,
                                          subfile_offsets |-> Unwrap(offsets),
                                          sorted_indices |-> files.value])

\* The subfiles the buffers are made of: the three placeholders, a stamp no
\* type has, a TEX0 too short for Tex::from_bytes, and MDL0 chunks whose
\* filesize is 0, 8, beyond the buffer, and that of an empty model list
SubfileChunks ==
    { StampJNT, StampPAT, StampSRT, <<88, 89, 90, 48>>,
      StampTEX \o <<0, 0, 0, 0>>,
      StampMDL \o <<0, 0, 0, 0>>,
      StampMDL \o <<8, 0, 0, 0>>,
      StampMDL \o <<200, 0, 0, 0>>,
      StampMDL \o <<24, 0, 0, 0>>
               \o <<0, 0, 16, 0,  8, 0, 12, 0, 0, 0, 0, 0,  4, 0, 0, 0>> }

\* The 16 bytes of a header of n subfiles
HeaderBytes(n) ==
    <<66, 77, 68, 48, 255, 254, 2, 0, 0, 0, 0, 0, 16, 0, n % 256, n \div 256>>

\* The buffer of a header of n subfiles, the table of the offsets and two
\* chunks. An offset is chosen among: the first chunk, the second chunk,
\* three bytes before the end, one past 65535.
OffsetChoices == 1..4

ChosenOffset(choice, n, first, second) ==
    CASE choice = 1 -> U32_of(16 + 4 * n)
      [] choice = 2 -> U32_of(16 + 4 * n + Len(first))
      [] choice = 3 -> U32_of(16 + 4 * n + Len(first) + Len(second) - 3)
      [] choice = 4 -> <<16 + 4 * n, 1>>

OffsetBytes(offset) ==
    <<offset[1] % 256, offset[1] \div 256, offset[2] % 256, offset[2] \div 256>>

ContainerBytes(n, choices, first, second) ==
    HeaderBytes(n)
        \o Flatten([i \in 1..n |-> OffsetBytes(ChosenOffset(choices[i], n, first, second))])
        \o first \o second

DState(bytes, result) ==
    /\ ct_bytes' = bytes
    /\ ct_result' = result

\* No buffer: the state of these variables in the other specifications
DIdle ==
    /\ ct_bytes = <<>>
    /\ ct_result = Outcome("idle", <<>>)

\* A buffer, whole, or cut inside the offset table, or cut inside the header
DInit ==
    /\ \E n \in 0..MaxSubfiles :
       \E choices \in [1..n -> OffsetChoices] :
       \E first \in SubfileChunks :
       \E second \in SubfileChunks :
       \E cut \in {0, 2, 4 * n + 8} :
            LET whole == ContainerBytes(n, choices, first, second)
            IN  ct_bytes = IF cut = 0 THEN whole
                           ELSE SubSeq(whole, 1, Header_SIZE + 4 * n - cut)
    /\ ct_result = NoOutcome

\* Container::from_bytes
ContainerFromBytes ==
    /\ ct_result = NoOutcome
    /\ DState(ct_bytes, Container_from_bytes(ct_bytes))
    /\ UNCHANGED NotDecodeVars

----------------------------------------------------------------------------
(* tools/mesh_command_gen.rs: MeshCommandGenerator::new. *)

\* Names of bones, and the entries of command_bones: a name or None
BoneNames == {"arm", "leg"}

CommandBoneEntries == {None} \cup { Some(name) : name \in BoneNames }

\* The sequences over a set of at most max entries
SeqsUpTo(set, max) == UNION { [1..n -> set] : n \in 0..max }

\* command_bones.iter().position(|cmd_bone| cmd_bone.as_ref() == Some(vertex_bone))
position_of(command_bones, vertex_bone) ==
    LET found == { i \in 1..Len(command_bones) : command_bones[i] = Some(vertex_bone) }
    IN IF found = {} THEN None
       ELSE Some((CHOOSE i \in found : \A k \in found : i <= k) - 1)

\* The bone_id of every vertex of every primitive
VertexBoneIds(primitives) ==
    UNION { { primitives[p][v] : v \in 1..Len(primitives[p]) } :
            p \in 1..Len(primitives) }

\* A variant of generate_vertex_to_command_bone_mapping that maps every
\* bone of vertex_bones, used by a vertex or not.
generate_mapping_of_all_bones(primitives, vertex_bones, command_bones) ==
    LET ids == VertexBoneIds(primitives)
        all == 0..(Len(vertex_bones) - 1)
    IN IF \E id \in ids : id >= Len(vertex_bones)
       THEN Outcome("panic", <<>>)
       ELSE IF \E i \in all : position_of(command_bones, vertex_bones[i + 1]) = None
       THEN Outcome("err", <<>>)
       ELSE Outcome("ok", [i \in all |->
                            Unwrap(position_of(command_bones, vertex_bones[i + 1]))])

\* MeshCommandGenerator::generate_vertex_to_command_bone_mapping: the index
\* into vertex_bone_is_used panics for a bone_id out of range; a bone no
\* vertex uses is skipped; a used bone with no position returns Err.
generate_vertex_to_command_bone_mapping(primitives, vertex_bones, command_bones) ==
    LET ids == VertexBoneIds(primitives)
    IN IF \E id \in ids : id >= Len(vertex_bones)
       THEN Outcome("panic", <<>>)
       ELSE IF \E i \in ids : position_of(command_bones, vertex_bones[i + 1]) = None
       THEN Outcome("err", <<>>)
       ELSE Outcome("ok", [i \in ids |->
                            Unwrap(position_of(command_bones, vertex_bones[i + 1]))])

\* MeshCommandGenerator::new: the mapping, or its error
MeshCommandGenerator_new(primitives, vertex_bones, command_bones) ==
    generate_vertex_to_command_bone_mapping(primitives, vertex_bones, command_bones)

GState(primitives, vertex_bones, command_bones, result) ==
    /\ gen_primitives' = primitives
    /\ gen_vertex_bones' = vertex_bones
    /\ gen_command_bones' = command_bones
    /\ gen_result' = result

\* No generator: the state of these variables in the other specifications
GIdle ==
    /\ gen_primitives = <<>>
    /\ gen_vertex_bones = <<>>
    /\ gen_command_bones = <<>>
    /\ gen_result = Outcome("idle", <<>>)

\* Two primitives that share at most MaxVertices vertices, with bone ids up
\* to one past the longest bone list, and the two bone lists
GInit ==
    /\ \E ids \in SeqsUpTo(0..MaxBoneNames, MaxVertices) :
       \E k \in {0, Len(ids)} :
            gen_primitives = <<SubSeq(ids, 1, k), SubSeq(ids, k + 1, Len(ids))>>
    /\ gen_vertex_bones \in SeqsUpTo(BoneNames, MaxBoneNames)
    /\ gen_command_bones \in SeqsUpTo(CommandBoneEntries, MaxBoneNames)
    /\ gen_result = NoOutcome

\* MeshCommandGenerator::new
GenNew ==
    /\ gen_result = NoOutcome
    /\ GState(gen_primitives, gen_vertex_bones, gen_command_bones,
              MeshCommandGenerator_new(gen_primitives, gen_vertex_bones,
                                       gen_command_bones))
    /\ UNCHANGED NotGenVars

----------------------------------------------------------------------------
(* util/number/alignment.rs on usize, a 64-bit word kept as four 16-bit *)
(* limbs, least significant first.                                       *)

USIZE_LIMBS == 4

LIMB == 65536

\* n, below 65536, as usize
Usize_of(n) == [i \in 1..USIZE_LIMBS |-> IF i = 1 THEN n ELSE 0]

\* usize::MAX - n, for n below 65536
Usize_below_max(n) == [i \in 1..USIZE_LIMBS |-> IF i = 1 THEN LIMB - 1 - n ELSE LIMB - 1]

\* usize::wrapping_add of a small number: the carry runs up the limbs and is
\* dropped after the last
RECURSIVE wrapping_add(_, _)
wrapping_add(a, n) ==
    IF a = <<>> THEN <<>>
    ELSE <<(Head(a) + n) % LIMB>> \o wrapping_add(Tail(a), (Head(a) + n) \div LIMB)

\* usize::wrapping_sub of 0 or 1: the borrow runs up the limbs and is dropped
\* after the last
RECURSIVE wrapping_sub(_, _)
wrapping_sub(a, n) ==
    IF a = <<>> THEN <<>>
    ELSE IF Head(a) >= n THEN <<Head(a) - n>> \o Tail(a)
    ELSE <<Head(a) + LIMB - n>> \o wrapping_sub(Tail(a), 1)

\* a & !mask for a mask of low bits (3, 15)
and_not(a, mask) == <<Head(a) - (Head(a) % (mask + 1))>> \o Tail(a)

\* A variant of the alignment that does not step back by one first.
aligned_next(a, boundary) == wrapping_add(and_not(a, boundary - 1), boundary)

\* (a.wrapping_sub(1) & !(boundary - 1)).wrapping_add(boundary)
aligned(a, boundary) ==
    wrapping_add(and_not(wrapping_sub(a, 1), boundary - 1), boundary)

\* get_4_byte_alignment on the whole of usize
get_4_byte_alignment_usize(a) == aligned(a, 4)

\* get_16_byte_alignment
get_16_byte_alignment(a) == aligned(a, 16)

AState(a, boundary, once, twice) ==
    /\ al_a' = a
    /\ al_boundary' = boundary
    /\ al_once' = once
    /\ al_twice' = twice

\* No argument: the state of these variables in the other specifications
AIdle ==
    /\ al_a = <<>>
    /\ al_boundary = 0
    /\ al_once = <<>>
    /\ al_twice = <<>>

\* An argument from 0 up, or from usize::MAX down
AInit ==
    /\ al_a \in { Usize_of(n) : n \in 0..MaxAligned }
                \cup { Usize_below_max(n) : n \in 0..MaxAligned }
    /\ al_boundary = 0
    /\ al_once = <<>>
    /\ al_twice = <<>>

\* get_4_byte_alignment(a)
Align4 ==
    /\ al_boundary = 0
    /\ AState(al_a, 4, get_4_byte_alignment_usize(al_a), <<>>)
    /\ UNCHANGED NotAlignVars

\* get_16_byte_alignment(a)
Align16 ==
    /\ al_boundary = 0
    /\ AState(al_a, 16, get_16_byte_alignment(al_a), <<>>)
    /\ UNCHANGED NotAlignVars

\* The same function on what it returned
AlignAgain ==
    /\ al_boundary # 0
    /\ al_twice = <<>>
    /\ AState(al_a, al_boundary, al_once,
              IF al_boundary = 4 THEN get_4_byte_alignment_usize(al_once)
              ELSE get_16_byte_alignment(al_once))
    /\ UNCHANGED NotAlignVars

----------------------------------------------------------------------------
(* util/number/fixed_point: the raw values of the five variants. An i16 is *)
(* an integer of -32768..32767, an i32 the pair <<low half, high half>> of *)
(* its two's complement bits.                                              *)

\* i16::wrapping_add, i16::wrapping_sub
i16_wrapping_add(a, b) == AsI16((a + b) % 65536)

i16_wrapping_sub(a, b) == AsI16((a - b) % 65536)

\* i32::wrapping_add, i32::wrapping_sub on the halves
i32_wrapping_add(a, b) ==
    <<(a[1] + b[1]) % 65536, (a[2] + b[2] + ((a[1] + b[1]) \div 65536)) % 65536>>

i32_wrapping_sub(a, b) ==
    <<(a[1] - b[1]) % 65536,
      (a[2] - b[2] - (IF a[1] < b[1] THEN 1 ELSE 0)) % 65536>>

\* A variant of Fixed1_0_9_propagate_sign that clamps to the 10-bit range.
Fixed1_0_9_clamp(value) ==
    IF value > 511 THEN 511 ELSE IF value < -512 THEN -512 ELSE value

\* Fixed1_0_9::propagate_sign: SIGN_MASK is 0x200, VOID_DATA_MASK 0xFC00
Fixed1_0_9_propagate_sign(value) ==
    IF ((value % 65536) \div 512) % 2 # 0
    THEN AsI16(((value % 65536) % 1024) + 64512)
    ELSE (value % 65536) % 1024

\* Fixed1_0_9::from_i16: NUMBER_DATA_MASK is 0x3FF
Fixed1_0_9_from_i16(value) == Fixed1_0_9_propagate_sign((value % 65536) % 1024)

\* impl Add: wrapping_add for 1.3.12, 1.11.4 and 1.19.12; for 1.0.9 the
\* plain sum of two raw values of 10 bits, then propagate_sign
Fixed_add(variant, a, b) ==
    CASE variant \in {"1.3.12", "1.11.4"} -> i16_wrapping_add(a, b)
      [] variant = "1.19.12" -> i32_wrapping_add(a, b)
      [] variant = "1.0.9" -> Fixed1_0_9_propagate_sign(a + b)

\* impl Sub
Fixed_sub(variant, a, b) ==
    CASE variant \in {"1.3.12", "1.11.4"} -> i16_wrapping_sub(a, b)
      [] variant = "1.19.12" -> i32_wrapping_sub(a, b)
      [] variant = "1.0.9" -> Fixed1_0_9_propagate_sign(a - b)

\* from_i16 of the two variants that mask
Fixed_from_i16(variant, value) ==
    CASE variant = "1.0.9" -> Fixed1_0_9_from_i16(value)
      [] variant = "1.3.6" -> Fixed1_3_6_from_i16(value)

\* The values next to the two ends and to zero of a signed range
EdgesOf(min, max) ==
    (min..(min + MaxFixedEdge)) \cup ((0 - MaxFixedEdge)..MaxFixedEdge)
        \cup ((max - MaxFixedEdge)..max)

\* The same for i32, as halves
I32Edges ==
    { <<j, 32768>> : j \in 0..MaxFixedEdge }
        \cup { <<65535 - j, 65535>> : j \in 0..(MaxFixedEdge - 1) }
        \cup { <<j, 0>> : j \in 0..MaxFixedEdge }
        \cup { <<65535 - j, 32767>> : j \in 0..MaxFixedEdge }

\* The raw values of a variant the operands are taken from
RawValues(variant) ==
    CASE variant \in {"1.3.12", "1.11.4"} -> EdgesOf(-32768, 32767)
      [] variant = "1.19.12" -> I32Edges
      [] variant = "1.0.9" -> EdgesOf(-512, 511)

\* The i16 values handed to from_i16: the ends of i16 and the values next to
\* 6, 7, 9 and 10 bits
I16Inputs ==
    EdgesOf(-32768, 32767)
        \cup UNION { ((n - 1 - MaxFixedEdge)..(n + MaxFixedEdge)) : n \in {64, 128, 512, 1024} }

FState(variant, a, b, op, out) ==
    /\ fx_variant' = variant
    /\ fx_a' = a
    /\ fx_b' = b
    /\ fx_op' = op
    /\ fx_out' = out

\* No number: the state of these variables in the other specifications
FIdle ==
    /\ fx_variant = "none"
    /\ fx_a = 0
    /\ fx_b = 0
    /\ fx_op = "none"
    /\ fx_out = 0

\* Two numbers of a variant with arithmetic, or an i16 for a variant that masks
FInit ==
    /\ \/ /\ fx_variant \in {"1.3.12", "1.11.4", "1.19.12", "1.0.9"}
          /\ fx_a \in RawValues(fx_variant)
          /\ fx_b \in RawValues(fx_variant)
       \/ /\ fx_variant \in {"1.0.9", "1.3.6"}
          /\ fx_a \in I16Inputs
          /\ fx_b = 0
    /\ fx_op = "none"
    /\ fx_out = 0

\* from_i16(fx_a)
FixedFromI16 ==
    /\ fx_op = "none"
    /\ fx_variant \in {"1.0.9", "1.3.6"}
    /\ fx_b = 0
    /\ FState(fx_variant, fx_a, fx_b, "from_i16", Fixed_from_i16(fx_variant, fx_a))
    /\ UNCHANGED NotFixedVars

\* a + b
FixedAdd ==
    /\ fx_op = "none"
    /\ fx_variant \in {"1.3.12", "1.11.4", "1.19.12", "1.0.9"}
    /\ fx_a \in RawValues(fx_variant)
    /\ FState(fx_variant, fx_a, fx_b, "add", Fixed_add(fx_variant, fx_a, fx_b))
    /\ UNCHANGED NotFixedVars

\* a - b
FixedSub ==
    /\ fx_op = "none"
    /\ fx_variant \in {"1.3.12", "1.11.4", "1.19.12", "1.0.9"}
    /\ fx_a \in RawValues(fx_variant)
    /\ FState(fx_variant, fx_a, fx_b, "sub", Fixed_sub(fx_variant, fx_a, fx_b))
    /\ UNCHANGED NotFixedVars

----------------------------------------------------------------------------
(* subfiles/mdl/model/render_command_list.rs: one                           *)
(* MulCurrentMatrixWithBoneMatrix or CalculateSkinningEquation command,     *)
(* decoded, edited through the public fields of its data struct, and        *)
(* written. A write is the sequence of <<index, byte>> stores it makes.     *)

\* MulCurrentMatrixWithBoneMatrixData::write_bytes on a slice of len bytes
MulData_write_bytes(data, len) ==
    IF len < MulData_len(data) THEN Outcome("err", <<>>)
    ELSE IF data.param_3 # <<>> /\ len < 4 THEN Outcome("panic", <<>>)
    ELSE IF data.param_4 # <<>> /\ len < 5 THEN Outcome("panic", <<>>)
    ELSE Outcome("ok",
            <<<<0, data.bone_index>>, <<1, data.parent_index>>,
              <<2, data.unknown>>>>
              \o (IF data.param_3 # <<>> THEN <<<<3, data.param_3[1]>>>> ELSE <<>>)
              \o (IF data.param_4 # <<>> THEN <<<<4, data.param_4[1]>>>> ELSE <<>>))

\* CalculateSkinningEquationData::len
SkinningData_len(data) == data.num_terms * 3 + 2

\* CalculateSkinningEquationData::write_bytes on a slice of len bytes
SkinningData_write_bytes(data, len) ==
    IF len < SkinningData_len(data) THEN Outcome("err", <<>>)
    ELSE IF 2 + 3 * Len(data.terms) > len THEN Outcome("panic", <<>>)
    ELSE Outcome("ok",
            <<<<0, data.store_index>>, <<1, data.num_terms>>>>
              \o Flatten([i \in 1..Len(data.terms) |->
                    <<<<2 + (i - 1) * 3, data.terms[i].matrix_index>>,
                      <<2 + (i - 1) * 3 + 1, data.terms[i].inv_bind_index>>,
                      <<2 + (i - 1) * 3 + 2, data.terms[i].weight>>>>]))

\* The arms of RenderCommand::write_bytes for the two kinds, on a buffer of
\* len bytes: the opcode at buffer[0], the data at buffer[1..]
RenderCommand_write_stores(cmd, len) ==
    IF len < RenderCommand_size(cmd) THEN Outcome("err", <<>>)
    ELSE LET data == IF cmd.op = "MulCurrentMatrixWithBoneMatrix"
                     THEN MulData_write_bytes(cmd, len - 1)
                     ELSE SkinningData_write_bytes(cmd, len - 1)
         IN  IF data.result # "ok" THEN data
             ELSE Outcome("ok",
                    <<<<0, RenderCommand_command_code(cmd)>>>>
                      \o [i \in 1..Len(data.value) |->
                            <<data.value[i][1] + 1, data.value[i][2]>>])

\* The encodings the commands are decoded from: a Mul of each subtype and
\* a CalculateSkinningEquation of 0, 1 and 2 terms
SizeEncodings ==
    { <<6, 1, 2, 3>>, <<38, 1, 2, 3, 4>>, <<70, 1, 2, 3, 4>>,
      <<102, 1, 2, 3, 4, 5>>,
      <<9, 5, 0>>, <<9, 5, 1, 2, 3, 4>>, <<9, 5, 2, 2, 3, 4, 5, 6, 7>> }

\* The values an edit stores in an optional slot byte
SlotEdits == { <<>>, <<9>> }

\* The term an edit pushes
PushedTerm == [matrix_index |-> 8, inv_bind_index |-> 1, weight |-> 128]

SState(bytes, cmd, edits, written) ==
    /\ sz_bytes' = bytes
    /\ sz_cmd' = cmd
    /\ sz_edits' = edits
    /\ sz_written' = written

\* No command: the state of these variables in the other specifications
SIdle ==
    /\ sz_bytes = <<>>
    /\ sz_cmd = <<>>
    /\ sz_edits = 0
    /\ sz_written = Outcome("idle", <<>>)

\* An encoding, before RenderCommand::from_bytes is called on it
SInit ==
    /\ sz_bytes \in SizeEncodings
    /\ sz_cmd = <<>>
    /\ sz_edits = 0
    /\ sz_written = NoOutcome

\* RenderCommand::from_bytes(sz_bytes[0], &sz_bytes[1..])
SizeFromBytes ==
    /\ sz_cmd = <<>>
    /\ SState(sz_bytes, RenderCommand_from_bytes(Head(sz_bytes), Tail(sz_bytes)),
              0, NoOutcome)
    /\ UNCHANGED NotSizeVars

\* An assignment to a public field of the data struct of the command
FieldEdited(kind, edited) ==
    /\ sz_cmd # <<>>
    /\ sz_cmd[1].op = kind
    /\ sz_edits < MaxFieldEdits
    /\ SState(sz_bytes, <<edited>>, sz_edits + 1, NoOutcome)
    /\ UNCHANGED NotSizeVars

\* data.subtype = subtype
SetSubtype(subtype) ==
    FieldEdited("MulCurrentMatrixWithBoneMatrix",
                [sz_cmd[1] EXCEPT !.subtype = subtype])

\* data.param_3 = slot
SetParam3(slot) ==
    FieldEdited("MulCurrentMatrixWithBoneMatrix",
                [sz_cmd[1] EXCEPT !.param_3 = slot])

\* data.param_4 = slot
SetParam4(slot) ==
    FieldEdited("MulCurrentMatrixWithBoneMatrix",
                [sz_cmd[1] EXCEPT !.param_4 = slot])

\* data.num_terms = n
SetNumTerms(n) ==
    FieldEdited("CalculateSkinningEquation", [sz_cmd[1] EXCEPT !.num_terms = n])

\* data.terms.push(term)
TermsPush ==
    /\ sz_cmd # <<>> /\ sz_cmd[1].op = "CalculateSkinningEquation"
    /\ Len(sz_cmd[1].terms) < MaxTerms
    /\ FieldEdited("CalculateSkinningEquation",
                   [sz_cmd[1] EXCEPT !.terms = Append(@, PushedTerm)])

\* data.terms.pop()
TermsPop ==
    /\ sz_cmd # <<>> /\ sz_cmd[1].op = "CalculateSkinningEquation"
    /\ FieldEdited("CalculateSkinningEquation",
                   [sz_cmd[1] EXCEPT !.terms =
                        IF @ = <<>> THEN <<>> ELSE SubSeq(@, 1, Len(@) - 1)])

\* RenderCommand::write_bytes into a buffer of size() + slack bytes
SizeWrite(slack) ==
    /\ sz_cmd # <<>>
    /\ sz_written = NoOutcome
    /\ SState(sz_bytes, sz_cmd, sz_edits,
              RenderCommand_write_stores(sz_cmd[1],
                                         RenderCommand_size(sz_cmd[1]) + slack))
    /\ UNCHANGED NotSizeVars

----------------------------------------------------------------------------
(* subfiles/mdl/model/mesh_list/mod.rs: a MeshList of several meshes, as    *)
(* from_bytes decodes it, the edits of the command lists of its meshes and  *)
(* MeshList::rebase.                                                        *)

\* The command lists of the meshes of the decoded section
DecodedCmds(i) ==
    IF i % 2 = 1 THEN <<BeginVtxs, Vtx16(4096, 0, 0), EndVtxs>>
    ELSE <<MtxRestore>>

\* The offset table and cmds_offset of a section whose meshes follow the
\* NameList one after the other, each header followed by its commands
RECURSIVE PackedOffset(_, _)
PackedOffset(first, i) ==
    IF i = 1 THEN first
    ELSE PackedOffset(first, i - 1) + Mesh_SIZE
           + GpuCommandList_size(DecodedCmds(i - 1))

\* The start of the commands of mesh i in a section whose headers follow
\* the NameList together, the command lists after the last header
RECURSIVE GroupedCmds(_, _, _)
GroupedCmds(first, n, i) ==
    IF i = 1 THEN first + n * Mesh_SIZE
    ELSE GroupedCmds(first, n, i - 1) + GpuCommandList_size(DecodedCmds(i - 1))

\* MeshList::from_bytes of a section of n meshes in the given arrangement
DecodedMeshList(n, arrangement) ==
    LET names == SampleNameList([i \in 1..n |-> 0])
        first == NameList_size(names)
        offset(i) == IF arrangement = "packed" THEN PackedOffset(first, i)
                     ELSE first + (i - 1) * Mesh_SIZE
    IN  [meshes |-> [names EXCEPT !.data = [i \in 1..n |-> offset(i)]],
         mesh_data |->
            [i \in 1..n |->
                [cmds_offset |-> IF arrangement = "packed" THEN Mesh_SIZE
                                 ELSE GroupedCmds(first, n, i) - offset(i),
                 cmds_len |-> GpuCommandList_size(DecodedCmds(i)),
                 render_cmds_list |-> DecodedCmds(i)]]]

\* The commands and vectors the edits hand to push and extend
ListEditCommands == { Vtx16(0, 4096, 0) }
ListEditVectors == { <<BeginVtxs, Vtx16(0, 0, 4096), EndVtxs>> }

QState(list, op, edits) ==
    /\ msl_list' = list
    /\ msl_op' = op
    /\ msl_edits' = edits

\* No MeshList: the state of these variables in the other specifications
QIdle ==
    /\ msl_list = <<>>
    /\ msl_op = "idle"
    /\ msl_edits = 0

\* A decoded MeshList
QInit ==
    /\ \E n \in 1..MaxMeshes, arrangement \in {"packed", "grouped"} :
          msl_list = DecodedMeshList(n, arrangement)
    /\ msl_op = "none"
    /\ msl_edits = 0

\* An edit of the command list of get_mesh_mut(i)
ListMeshEdited(i, cmds) ==
    /\ i < Len(msl_list.mesh_data)
    /\ msl_edits < MaxListEdits
    /\ QState([msl_list EXCEPT !.mesh_data[i + 1].render_cmds_list = cmds],
              "edit", msl_edits + 1)
    /\ UNCHANGED NotMeshListVars

\* get_mesh_mut(i).get_render_cmds_list_mut().push(cmd)
ListMeshPush(i, cmd) ==
    /\ i < Len(msl_list.mesh_data)
    /\ ListMeshEdited(i, Append(msl_list.mesh_data[i + 1].render_cmds_list, cmd))

\* get_mesh_mut(i).get_render_cmds_list_mut().extend(commands)
ListMeshExtend(i, commands) ==
    /\ i < Len(msl_list.mesh_data)
    /\ ListMeshEdited(i, msl_list.mesh_data[i + 1].render_cmds_list \o commands)

\* get_mesh_mut(i).get_render_cmds_list_mut().clear()
ListMeshClear(i) == ListMeshEdited(i, <<>>)

\* MeshList::rebase
MeshListRebase ==
    /\ msl_op # "rebase"
    /\ QState(MeshList_rebase(msl_list), "rebase", msl_edits)
    /\ UNCHANGED NotMeshListVars

----------------------------------------------------------------------------
(* tools/mesh_command_gen.rs: generate_commands. An f32 is kept in units of *)
(* 1 / F32_UNITS; the HashMap of the single-bone triangles is iterated in   *)
(* any order of its keys.                                                   *)

\* `value as i16` of an f32 holding a whole number: the cast saturates
f32_as_i16(n) ==
    IF n > 32767 THEN 32767 ELSE IF n < -32768 THEN -32768 ELSE n

\* The quotient rounded toward zero, as the cast of an f32 rounds
TruncDiv(a, b) == IF a >= 0 THEN a \div b ELSE 0 - ((0 - a) \div b)

\* Fixed1_3_12::from_f32: (value * (1 << 12)) as i16
Fixed1_3_12_from_f32(value) == f32_as_i16(TruncDiv(value * 4096, F32_UNITS))

\* Fixed1_11_4::from_f32: (value * (1 << 4)) as i16
Fixed1_11_4_from_f32(value) == f32_as_i16(TruncDiv(value * 16, F32_UNITS))

TexCoordCmd(s_coord, t_coord) == [op |-> "TexCoord", s |-> s_coord, t |-> t_coord]

\* tools/models/vertex.rs: Vertex
Vertex(position, tex_coord, bone_id) ==
    [position |-> position, tex_coord |-> tex_coord, bone_id |-> bone_id]

\* The TexCoord and the Vtx16 pushed for one vertex
VertexCommands(vertex, texture_size) ==
    << TexCoordCmd(Fixed1_11_4_from_f32(vertex.tex_coord.u * texture_size[1]),
                   Fixed1_11_4_from_f32(vertex.tex_coord.v * texture_size[2])),
       Vtx16(Fixed1_3_12_from_f32(vertex.position.x),
             Fixed1_3_12_from_f32(vertex.position.y),
             Fixed1_3_12_from_f32(vertex.position.z)) >>

\* A variant of is_single_bonned that compares v1 and v2 only.
is_single_bonned_v1_v2(triangle) ==
    triangle.v1.bone_id = triangle.v2.bone_id

\* PolygonTriangle::is_single_bonned
is_single_bonned(triangle) ==
    /\ triangle.v1.bone_id = triangle.v2.bone_id
    /\ triangle.v1.bone_id = triangle.v3.bone_id

\* The loop of generate_command_groups over the indices of one primitive,
\* from index i on: indexing vertices out of range panics
RECURSIVE TrianglesFrom(_, _, _)
TrianglesFrom(vertex_list, indices, i) ==
    IF i > Len(indices) THEN Outcome("ok", <<>>)
    ELSE IF \E k \in i..(i + 2) : indices[k] >= Len(vertex_list)
        THEN Outcome("panic", <<>>)
    ELSE LET rest == TrianglesFrom(vertex_list, indices, i + 3)
         IN  IF rest.result # "ok" THEN rest
             ELSE Outcome("ok",
                    <<[v1 |-> vertex_list[indices[i] + 1],
                       v2 |-> vertex_list[indices[i + 1] + 1],
                       v3 |-> vertex_list[indices[i + 2] + 1]]>> \o rest.value)

\* generate_command_groups: the triangles in the order add_triangle gets
\* them, or Err for indices that are not a multiple of 3
RECURSIVE generate_command_groups(_)
generate_command_groups(primitives) ==
    IF primitives = <<>> THEN Outcome("ok", <<>>)
    ELSE IF Len(Head(primitives).indices) % 3 # 0 THEN Outcome("err", <<>>)
    ELSE LET here == TrianglesFrom(Head(primitives).vertices,
                                   Head(primitives).indices, 1)
         IN  IF here.result # "ok" THEN here
             ELSE LET rest == generate_command_groups(Tail(primitives))
                  IN  IF rest.result # "ok" THEN rest
                      ELSE Outcome("ok", here.value \o rest.value)

\* CommandGroups::add_triangle: the entry of bone_id in
\* single_bonned_triangles, and multi_bonned_triangles
single_bonned_triangles(triangles, bone_id) ==
    SelectSeq(triangles,
              LAMBDA t : is_single_bonned(t) /\ t.v1.bone_id = bone_id)

multi_bonned_triangles(triangles) ==
    SelectSeq(triangles, LAMBDA t : ~is_single_bonned(t))

\* The keys of single_bonned_triangles
SingleBoneKeys(triangles) ==
    { triangles[i].v1.bone_id :
        i \in { k \in 1..Len(triangles) : is_single_bonned(triangles[k]) } }

\* The orders an iteration of a HashMap with these keys can take
IterationOrders(keys) ==
    { order \in [1..Cardinality(keys) -> keys] :
        \A i, j \in 1..Cardinality(keys) : i # j => order[i] # order[j] }

\* get_vertex_to_cmd_bone_mapped_index
get_vertex_to_cmd_bone_mapped_index(mapping, vertex_bone_index) ==
    IF vertex_bone_index \in DOMAIN mapping
    THEN Some(mapping[vertex_bone_index]) ELSE None

\* The vertices of the triangles, v1, v2, v3 of each in turn
TriangleVertices(triangles) ==
    Flatten([i \in 1..Len(triangles) |->
                <<triangles[i].v1, triangles[i].v2, triangles[i].v3>>])

\* generate_single_bonned_triangle_commands over the keys in the given order
RECURSIVE generate_single_bonned_triangle_commands(_, _, _, _)
generate_single_bonned_triangle_commands(mapping, triangles, order, texture_size) ==
    IF order = <<>> THEN Outcome("ok", <<>>)
    ELSE LET cmd_bone_id == get_vertex_to_cmd_bone_mapped_index(mapping, Head(order))
             vertex_list == TriangleVertices(single_bonned_triangles(triangles, Head(order)))
             rest == generate_single_bonned_triangle_commands(mapping, triangles,
                         Tail(order), texture_size)
         IN  IF cmd_bone_id = None THEN Outcome("err", <<>>)
             ELSE IF rest.result # "ok" THEN rest
             ELSE Outcome("ok",
                    <<BeginVtxs, MtxRestoreCmd(U32_of(Unwrap(cmd_bone_id)))>>
                      \o Flatten([i \in 1..Len(vertex_list) |->
                                    VertexCommands(vertex_list[i], texture_size)])
                      \o <<EndVtxs>> \o rest.value)

\* The loop of generate_multi_bonned_triangle_commands over the vertices: a
\* MtxRestore is pushed when the mapped bone is not prev_bone_id
RECURSIVE MultiBoneVertices(_, _, _, _)
MultiBoneVertices(mapping, vertex_list, prev_bone_id, texture_size) ==
    IF vertex_list = <<>> THEN Outcome("ok", <<>>)
    ELSE LET current == get_vertex_to_cmd_bone_mapped_index(mapping,
                            Head(vertex_list).bone_id)
         IN  IF current = None THEN Outcome("err", <<>>)
             ELSE LET rest == MultiBoneVertices(mapping, Tail(vertex_list),
                                  Unwrap(current), texture_size)
                  IN  IF rest.result # "ok" THEN rest
                      ELSE Outcome("ok",
                             (IF Unwrap(current) # prev_bone_id
                              THEN <<MtxRestoreCmd(U32_of(Unwrap(current)))>>
                              ELSE <<>>)
                               \o VertexCommands(Head(vertex_list), texture_size)
                               \o rest.value)

\* generate_multi_bonned_triangle_commands
generate_multi_bonned_triangle_commands(mapping, triangles, texture_size) ==
    IF triangles = <<>> THEN Outcome("ok", <<>>)
    ELSE LET prev_bone_id == get_vertex_to_cmd_bone_mapped_index(mapping,
                                 triangles[1].v1.bone_id)
         IN  IF prev_bone_id = None THEN Outcome("err", <<>>)
             ELSE LET body == MultiBoneVertices(mapping, TriangleVertices(triangles),
                                  Unwrap(prev_bone_id), texture_size)
                  IN  IF body.result # "ok" THEN body
                      ELSE Outcome("ok",
                             <<BeginVtxs, MtxRestoreCmd(U32_of(Unwrap(prev_bone_id)))>>
                               \o body.value \o <<EndVtxs>>)

\* MeshCommandGenerator::generate_commands, the HashMap iterated in order
generate_commands(mapping, primitives, order, texture_size) ==
    LET command_groups == generate_command_groups(primitives)
    IN  IF command_groups.result # "ok" THEN command_groups
        ELSE LET single == generate_single_bonned_triangle_commands(mapping,
                               command_groups.value, order, texture_size)
             IN  IF single.result # "ok" THEN single
                 ELSE LET multi == generate_multi_bonned_triangle_commands(mapping,
                                       multi_bonned_triangles(command_groups.value),
                                       texture_size)
                      IN  IF multi.result # "ok" THEN multi
                          ELSE Outcome("ok", single.value \o multi.value)

\* The three vertices of a primitive, with the given bone ids: distinct
\* positions, one beyond the range of Fixed1_3_12, and texture coordinates
PrimitiveVertices(bone_ids) ==
    << Vertex(Position(4096, 0, -4096), [u |-> 0, v |-> 4096], bone_ids[1]),
       Vertex(Position(8192, 2048, 0), [u |-> 2048, v |-> -1024], bone_ids[2]),
       Vertex(Position(40000, -2048, 6144), [u |-> 4096, v |-> 1000], bone_ids[3]) >>

\* The bone ids of the vertices of a primitive
BoneAssignments ==
    { <<0, 0, 0>>, <<0, 0, 1>>, <<0, 1, 1>>, <<1, 1, 1>>, <<1, 0, 1>> }

\* The index triples of a triangle
TriangleIndices == { <<0, 1, 2>>, <<0, 0, 0>>, <<2, 2, 2>>, <<2, 1, 0>> }

\* The indices of a primitive: whole triangles, two indices short of a
\* triangle, and a triangle with an index past the vertices
IndexLists ==
    { Flatten(ts) : ts \in SeqsUpTo(TriangleIndices, MaxTriangles) }
      \cup { <<0, 1>>, <<0, 1, 3>> }

\* The primitives after the first: none, a triangle of bone 1, a triangle
\* of bones 1, 0, 1
LaterPrimitives ==
    { <<>>,
      << [vertices |-> PrimitiveVertices(<<1, 1, 1>>), indices |-> <<0, 1, 2>>] >>,
      << [vertices |-> PrimitiveVertices(<<1, 0, 1>>), indices |-> <<2, 0, 1>>] >> }

\* vertex_bones and command_bones: each bone at its place, the places
\* swapped behind a None, two vertex bones of one name, a bone missing
BoneLists ==
    { << <<"arm", "leg">>, <<Some("arm"), Some("leg")>> >>,
      << <<"arm", "leg">>, <<None, Some("leg"), Some("arm")>> >>,
      << <<"arm", "arm">>, <<Some("leg"), Some("arm")>> >>,
      << <<"arm", "leg">>, <<Some("arm")>> >> }

\* The bone ids of the vertices of each primitive
BoneIdsOf(primitives) ==
    [p \in 1..Len(primitives) |->
        [v \in 1..Len(primitives[p].vertices) |-> primitives[p].vertices[v].bone_id]]

TState(input, mapping, commands, extract) ==
    /\ tg_input' = input
    /\ tg_mapping' = mapping
    /\ tg_commands' = commands
    /\ tg_extract' = extract

\* No generator: the state of these variables in the other specifications
TIdle ==
    /\ tg_input = <<>>
    /\ tg_mapping = Outcome("idle", <<>>)
    /\ tg_commands = Outcome("idle", <<>>)
    /\ tg_extract = Outcome("idle", <<>>)

\* The arguments of MeshCommandGenerator::new
TInit ==
    /\ \E bone_ids \in BoneAssignments, indices \in IndexLists,
          later \in LaterPrimitives, bones \in BoneLists :
          tg_input = [primitives |->
                         <<[vertices |-> PrimitiveVertices(bone_ids),
                            indices |-> indices]>> \o later,
                      vertex_bones |-> bones[1],
                      command_bones |-> bones[2],
                      texture_size |-> <<8, 16>>]
    /\ tg_mapping = NoOutcome
    /\ tg_commands = NoOutcome
    /\ tg_extract = NoOutcome

\* MeshCommandGenerator::new
TriNew ==
    /\ tg_mapping = NoOutcome
    /\ TState(tg_input,
              generate_vertex_to_command_bone_mapping(BoneIdsOf(tg_input.primitives),
                  tg_input.vertex_bones, tg_input.command_bones),
              NoOutcome, NoOutcome)
    /\ UNCHANGED NotTriVars

\* MeshCommandGenerator::generate_commands
TriGenerate ==
    /\ tg_mapping.result = "ok"
    /\ tg_commands = NoOutcome
    /\ LET command_groups == generate_command_groups(tg_input.primitives)
           keys == IF command_groups.result = "ok"
                   THEN SingleBoneKeys(command_groups.value) ELSE {}
       IN  \E order \in IterationOrders(keys) :
              TState(tg_input, tg_mapping,
                     generate_commands(tg_mapping.value, tg_input.primitives,
                                       order, tg_input.texture_size),
                     NoOutcome)
    /\ UNCHANGED NotTriVars

\* MeshRenderCmdVertexPosExtractor::new over the generated commands, then
\* execute
TriExtract ==
    /\ tg_commands.result = "ok"
    /\ tg_extract = NoOutcome
    /\ LET run == VtxRun(NewExtractorState, tg_commands.value, 1, <<>>)
       IN  TState(tg_input, tg_mapping, tg_commands,
                  Outcome(run.result, run.st.vertices))
    /\ UNCHANGED NotTriVars

----------------------------------------------------------------------------
(* The specifications. *)

ExecInit ==
    /\ XInit /\ VInit /\ RIdle /\ MIdle /\ CIdle /\ IIdle
    /\ LIdle /\ DIdle /\ GIdle
    /\ AIdle
    /\ FIdle
    /\ SIdle
    /\ QIdle
    /\ TIdle

ExecNext ==
    \/ \E cmd \in RenderCommands : RcPush(cmd)
    \/ NewExecutor
    \/ Execute
    \/ ExecuteUntilNextMeshDraw
    \/ LoopCommand
    \/ ReturnAtDrawMesh
    \/ ReturnAfterLoop

SpecExec == ExecInit /\ [][ExecNext]_vars

VtxInit ==
    /\ VInit /\ XInit /\ RIdle /\ MIdle /\ CIdle /\ IIdle
    /\ LIdle /\ DIdle /\ GIdle
    /\ AIdle
    /\ FIdle
    /\ SIdle
    /\ QIdle
    /\ TIdle

VtxNext ==
    \/ \E cmd \in GpuCommands : GpuPush(cmd)
    \/ \E commands \in GpuCommandVectors : GpuExtend(commands)
    \/ NewExtractor
    \/ VtxExecute

SpecVtx == VtxInit /\ [][VtxNext]_vars

RebaseInit ==
    /\ RInit /\ XInit /\ VInit /\ MIdle /\ CIdle /\ IIdle
    /\ LIdle /\ DIdle /\ GIdle
    /\ AIdle
    /\ FIdle
    /\ SIdle
    /\ QIdle
    /\ TIdle

RebaseNext ==
    \/ \E cmd \in EditRenderCommands : RenderCmdsPush(cmd)
    \/ RenderCmdsClear
    \/ \E cmd \in EditGpuCommands : MeshCmdsPush(cmd)
    \/ MeshCmdsClear
    \/ ContainerRebase
    \/ MdlRebase(0)
    \/ \E j \in 0..1 : ModelRebase(0, j)

SpecRebase == RebaseInit /\ [][RebaseNext]_vars

MeshInit ==
    /\ MInit /\ XInit /\ VInit /\ RIdle /\ CIdle /\ IIdle
    /\ LIdle /\ DIdle /\ GIdle
    /\ AIdle
    /\ FIdle
    /\ SIdle
    /\ QIdle
    /\ TIdle

MeshNext ==
    \/ MeshFromBytes
    \/ \E cmd \in MeshEditCommands : MeshListPush(cmd)
    \/ \E commands \in MeshEditVectors : MeshListExtend(commands)
    \/ MeshListClear
    \/ MeshRebase
    \/ MeshWrite
    \/ MeshReread

SpecMesh == MeshInit /\ [][MeshNext]_vars

CodecInit ==
    /\ CInit /\ XInit /\ VInit /\ RIdle /\ MIdle /\ IIdle
    /\ LIdle /\ DIdle /\ GIdle
    /\ AIdle
    /\ FIdle
    /\ SIdle
    /\ QIdle
    /\ TIdle

CodecNext ==
    \/ RenderFromBytes
    \/ RenderWriteBytes

SpecCodec == CodecInit /\ [][CodecNext]_vars

IdxInit ==
    /\ IInit /\ XInit /\ VInit /\ RIdle /\ MIdle /\ CIdle
    /\ LIdle /\ DIdle /\ GIdle
    /\ AIdle
    /\ FIdle
    /\ SIdle
    /\ QIdle
    /\ TIdle

IdxNext ==
    \/ PairingDecode
    \/ PairingEncode

SpecIdx == IdxInit /\ [][IdxNext]_vars

LayoutInit ==
    /\ LInit /\ XInit /\ VInit /\ RIdle /\ MIdle /\ CIdle /\ IIdle
    /\ DIdle /\ GIdle
    /\ AIdle
    /\ FIdle
    /\ SIdle
    /\ QIdle
    /\ TIdle

LayoutNext ==
    \/ MaterialListRebase

SpecLayout == LayoutInit /\ [][LayoutNext]_vars

GenInit ==
    /\ GInit /\ XInit /\ VInit /\ RIdle /\ MIdle /\ CIdle /\ IIdle
    /\ LIdle /\ DIdle
    /\ AIdle
    /\ FIdle
    /\ SIdle
    /\ QIdle
    /\ TIdle

GenNext ==
    \/ GenNew

SpecGen == GenInit /\ [][GenNext]_vars

DecodeInit ==
    /\ DInit /\ XInit /\ VInit /\ RIdle /\ MIdle /\ CIdle /\ IIdle
    /\ LIdle /\ GIdle
    /\ AIdle
    /\ FIdle
    /\ SIdle
    /\ QIdle
    /\ TIdle

DecodeNext ==
    \/ ContainerFromBytes

SpecDecode == DecodeInit /\ [][DecodeNext]_vars

AlignInit ==
    /\ AInit /\ XInit /\ VInit /\ RIdle /\ MIdle /\ CIdle /\ IIdle
    /\ LIdle /\ DIdle /\ GIdle
    /\ FIdle
    /\ SIdle
    /\ QIdle
    /\ TIdle

AlignNext ==
    \/ Align4
    \/ Align16
    \/ AlignAgain

SpecAlign == AlignInit /\ [][AlignNext]_vars

FixedInit ==
    /\ FInit /\ XInit /\ VInit /\ RIdle /\ MIdle /\ CIdle /\ IIdle
    /\ LIdle /\ DIdle /\ GIdle /\ AIdle
    /\ SIdle
    /\ QIdle
    /\ TIdle

FixedNext ==
    \/ FixedFromI16
    \/ FixedAdd
    \/ FixedSub

SpecFixed == FixedInit /\ [][FixedNext]_vars

SizeInit ==
    /\ SInit /\ XInit /\ VInit /\ RIdle /\ MIdle /\ CIdle /\ IIdle
    /\ LIdle /\ DIdle /\ GIdle /\ AIdle /\ FIdle
    /\ QIdle
    /\ TIdle

SizeNext ==
    \/ SizeFromBytes
    \/ \E subtype \in {0, 32, 64, 96} : SetSubtype(subtype)
    \/ \E slot \in SlotEdits : SetParam3(slot)
    \/ \E slot \in SlotEdits : SetParam4(slot)
    \/ \E n \in 0..MaxTerms : SetNumTerms(n)
    \/ TermsPush
    \/ TermsPop
    \/ \E slack \in 0..MaxSlack : SizeWrite(slack)

SpecSize == SizeInit /\ [][SizeNext]_vars

MeshListInit ==
    /\ QInit /\ XInit /\ VInit /\ RIdle /\ MIdle /\ CIdle /\ IIdle
    /\ LIdle /\ DIdle /\ GIdle /\ AIdle /\ FIdle /\ SIdle
    /\ TIdle

MeshListNext ==
    \/ \E i \in 0..(MaxMeshes - 1), cmd \in ListEditCommands : ListMeshPush(i, cmd)
    \/ \E i \in 0..(MaxMeshes - 1), commands \in ListEditVectors :
          ListMeshExtend(i, commands)
    \/ \E i \in 0..(MaxMeshes - 1) : ListMeshClear(i)
    \/ MeshListRebase

SpecMeshList == MeshListInit /\ [][MeshListNext]_vars

TriInit ==
    /\ TInit /\ XInit /\ VInit /\ RIdle /\ MIdle /\ CIdle /\ IIdle
    /\ LIdle /\ DIdle /\ GIdle /\ AIdle /\ FIdle /\ SIdle /\ QIdle

TriNext ==
    \/ TriNew
    \/ TriGenerate
    \/ TriExtract

SpecTri == TriInit /\ [][TriNext]_vars

----------------------------------------------------------------------------
(* Properties of the matrix-stack executor (SpecExec).                      *)
(* x_last holds the command of the last execute_command and the state       *)
(* before it; no other action changes the executor's state, so the state    *)
(* variables are the state after that command.                              *)

Slots == 0..(STACK_LEN - 1)

LastIs(op) == x_last.valid /\ x_last.cmd.op = op

BoneMatrixOf(index) == to_matrix(bone_list[index + 1])

\* The list of the scenario: Mul with opcode 0x66 (subtype 0x60), bone 2,
\* payload byte 3 = 5, payload byte 4 = 7, then End; run once by execute().
ScenarioMul0x60 == <<Unwrap(MulData_from_bytes(102, <<2, 0, 0, 5, 7>>)), End>>

ScenarioMul0x60Done ==
    /\ render_cmds = ScenarioMul0x60
    /\ x_phase = "returned"
    /\ x_mode = "execute"
    /\ x_calls = 1
    /\ x_result = "ok"

\* C4, as stated: subtype 0x60 loads from the slot in payload byte 3 and
\* stores to the slot in payload byte 4, so the scenario leaves the product
\* identity * boneMatrix(2) and the name of bone 2 in slot 7 and every other
\* slot, slot 5 included, unchanged.
C4_Load3Store4 ==
    ScenarioMul0x60Done =>
        /\ matrix_stack[7] = MatMul(Identity4, BoneMatrixOf(2))
        /\ loaded_bones_in_matrix[7] = Some(bone_list[3].name)
        /\ \A i \in Slots \ {7} :
              /\ matrix_stack[i] = Identity4
              /\ loaded_bones_in_matrix[i] = None

\* C4, amended: subtype 0x60 stores to the slot in payload byte 3 (param_3)
\* and loads from the slot in payload byte 4 (param_4).  Every completed
\* 0x60 command leaves stack[byte 4 before] * boneMatrix in current_matrix
\* and in stack[byte 3], the bone's name in tracker[byte 3], and no other
\* slot changed; the scenario leaves identity * boneMatrix(2) and the name
\* of bone 2 in slot 5, and slot 7 and every other slot unchanged.
C4_Store3Load4 ==
    /\ (LastIs("MulCurrentMatrixWithBoneMatrix") /\ x_last.cmd.subtype = 96
            /\ x_last.status = "ok") =>
          LET byte3 == Unwrap(x_last.cmd.param_3)
              byte4 == Unwrap(x_last.cmd.param_4)
              product == MatMul(x_last.pre.matrix_stack[byte4],
                                BoneMatrixOf(x_last.cmd.bone_index))
          IN  /\ current_matrix = product
              /\ matrix_stack = [x_last.pre.matrix_stack EXCEPT ![byte3] = product]
              /\ loaded_bones_in_matrix =
                    [x_last.pre.loaded_bones_in_matrix EXCEPT
                        ![byte3] = Some(bone_list[x_last.cmd.bone_index + 1].name)]
    /\ ScenarioMul0x60Done =>
          /\ matrix_stack[5] = MatMul(Identity4, BoneMatrixOf(2))
          /\ loaded_bones_in_matrix[5] = Some(bone_list[3].name)
          /\ \A i \in Slots \ {5} :
                /\ matrix_stack[i] = Identity4
                /\ loaded_bones_in_matrix[i] = None

\* The scenario has run, and slot 5 holds the matrix of bone 2.
C4_Witness ==
    /\ ScenarioMul0x60Done
    /\ matrix_stack[5] # Identity4
    /\ matrix_stack[7] = Identity4

\* The slots of a Mul command by subtype: 0x00 none, 0x20 a store slot in
\* payload byte 3, 0x40 a load slot in payload byte 3, 0x60 both.
C5_LoadSlot(data) ==
    CASE data.subtype = 64 -> data.param_3
      [] data.subtype = 96 -> data.param_4
      [] OTHER -> None

C5_StoreSlot(data) ==
    IF data.subtype \in {32, 96} THEN data.param_3 ELSE None

\* C5: a completed MulCurrentMatrixWithBoneMatrix has loaded stack[load
\* slot] into current_matrix if it has a load slot, then multiplied
\* current_matrix on the right by the bone's matrix, then written the
\* product and the bone's name to the store slot if it has one; no other
\* stack slot and no other tracker entry has changed.
C5_MulOrder ==
    (LastIs("MulCurrentMatrixWithBoneMatrix") /\ x_last.status = "ok") =>
        LET load  == C5_LoadSlot(x_last.cmd)
            store == C5_StoreSlot(x_last.cmd)
            loaded == IF IsSome(load)
                      THEN x_last.pre.matrix_stack[Unwrap(load)]
                      ELSE x_last.pre.current_matrix
            product == MatMul(loaded, BoneMatrixOf(x_last.cmd.bone_index))
        IN  /\ x_last.cmd.subtype \in {0, 32, 64, 96}
            /\ current_matrix = product
            /\ IF IsSome(store)
               THEN /\ matrix_stack =
                          [x_last.pre.matrix_stack EXCEPT ![Unwrap(store)] = product]
                    /\ loaded_bones_in_matrix =
                          [x_last.pre.loaded_bones_in_matrix EXCEPT
                              ![Unwrap(store)] =
                                  Some(bone_list[x_last.cmd.bone_index + 1].name)]
               ELSE /\ matrix_stack = x_last.pre.matrix_stack
                    /\ loaded_bones_in_matrix = x_last.pre.loaded_bones_in_matrix

\* A Mul with both slots has completed: current_matrix held a matrix other
\* than the identity and other than the content of the load slot, and the
\* store slot has changed.
C5_Witness ==
    /\ LastIs("MulCurrentMatrixWithBoneMatrix")
    /\ x_last.status = "ok"
    /\ x_last.cmd.subtype = 96
    /\ x_last.pre.current_matrix # Identity4
    /\ x_last.pre.current_matrix # x_last.pre.matrix_stack[Unwrap(x_last.cmd.param_4)]
    /\ matrix_stack[Unwrap(x_last.cmd.param_3)]
         # x_last.pre.matrix_stack[Unwrap(x_last.cmd.param_3)]

\* C6: LoadMatrixFromStack with an index of 31 or more returns an error and
\* leaves matrix_stack, current_matrix and the tracker unchanged; with a
\* smaller index it succeeds, current_matrix is stack[index], and the stack
\* and the tracker are unchanged.
C6_LoadMatrixFromStack ==
    LastIs("LoadMatrixFromStack") =>
        IF x_last.cmd.stack_index >= 31
        THEN /\ x_last.status = "err"
             /\ XState = x_last.pre
        ELSE /\ x_last.status = "ok"
             /\ current_matrix = x_last.pre.matrix_stack[x_last.cmd.stack_index]
             /\ matrix_stack = x_last.pre.matrix_stack
             /\ loaded_bones_in_matrix = x_last.pre.loaded_bones_in_matrix

\* A load has replaced a current_matrix that differed from the slot.
C6_Witness ==
    /\ LastIs("LoadMatrixFromStack")
    /\ x_last.cmd.stack_index < 31
    /\ x_last.pre.current_matrix # x_last.pre.matrix_stack[x_last.cmd.stack_index]
    /\ current_matrix = x_last.pre.matrix_stack[x_last.cmd.stack_index]

\* Position of the first DrawMesh of the list, 0 if there is none.
FirstDrawMeshPos ==
    IF \E i \in 1..Len(render_cmds) : render_cmds[i].op = "DrawMesh"
    THEN CHOOSE i \in 1..Len(render_cmds) :
            /\ render_cmds[i].op = "DrawMesh"
            /\ \A j \in 1..(i - 1) : render_cmds[j].op # "DrawMesh"
    ELSE 0

Positions(n) == [i \in 1..n |-> i]

UntilDrawReturned == x_phase = "returned" /\ x_mode = "until_draw"

\* C7: execute_until_next_mesh_draw returns success only after executing,
\* in list order from the first command, exactly the commands before the
\* first DrawMesh; it never executes a DrawMesh or a command after the
\* first DrawMesh; over a list without DrawMesh it never returns success,
\* and it reports the missing DrawMesh only after executing every command;
\* a DrawMesh that is executed (by execute) changes no executor state.
C7_UntilNextMeshDraw ==
    /\ (UntilDrawReturned /\ x_result = "ok") =>
          /\ FirstDrawMeshPos > 0
          /\ x_trace = Positions(FirstDrawMeshPos - 1)
    /\ (UntilDrawReturned /\ FirstDrawMeshPos = 0) =>
          /\ x_result \in {"err", "err_no_draw", "panic"}
          /\ x_result = "err_no_draw" => x_trace = Positions(Len(render_cmds))
    /\ (UntilDrawReturned /\ x_result = "err_no_draw") => FirstDrawMeshPos = 0
    /\ (x_phase \in {"running", "returned"} /\ x_mode = "until_draw") =>
          /\ x_trace = Positions(Len(x_trace))
          /\ FirstDrawMeshPos > 0 => Len(x_trace) < FirstDrawMeshPos
    /\ LastIs("DrawMesh") => (x_last.status = "ok" /\ XState = x_last.pre)

\* A second call has returned success at a DrawMesh after executing the
\* command before it, which changed the state again.
C7_Witness ==
    /\ UntilDrawReturned
    /\ x_result = "ok"
    /\ x_calls = 2
    /\ x_trace = <<1>>
    /\ XState # x_last.pre
    /\ x_last.pre # NewExecutorState

\* C8, as stated: End is terminal for execute(): no command positioned
\* after an End is executed, and a call that reaches an End returns success.
C8_EndIsTerminal ==
    (x_mode = "execute" /\ x_phase \in {"running", "returned"}) =>
        /\ \A k \in 1..Len(x_trace) :
              \A j \in 1..(x_trace[k] - 1) : render_cmds[j].op # "End"
        /\ (x_phase = "returned"
               /\ \E k \in 1..Len(x_trace) : render_cmds[x_trace[k]].op = "End")
            => x_result = "ok"

----------------------------------------------------------------------------
(* Properties of the vertex-position extractor (SpecVtx).                   *)
(* v_hist[k] is the state after the k-th command of the last execute(),     *)
(* v_start the state when that call began; the call failed at its last      *)
(* command iff v_result is "err".                                           *)

VSteps == 1..Len(v_hist)

VPre(k) == IF k = 1 THEN v_start ELSE v_hist[k - 1]

VStepOk(k) == k < Len(v_hist) \/ v_result = "ok"

GroupOps == {"BeginVtxs", "EndVtxs"}

\* Positions of the BeginVtxs and EndVtxs commands among the first n.
GroupPositions(n) == {i \in 1..n : gpu_cmds[i].op \in GroupOps}

MaxOf(S) == CHOOSE m \in S : \A i \in S : i <= m

\* BeginVtxs and EndVtxs alternate strictly, starting with BeginVtxs.
GroupsAlternate ==
    \A i \in GroupPositions(Len(gpu_cmds)) :
        IF GroupPositions(i - 1) = {}
        THEN gpu_cmds[i].op = "BeginVtxs"
        ELSE gpu_cmds[i].op # gpu_cmds[MaxOf(GroupPositions(i - 1))].op

\* C9: BeginVtxs inside a group fails and changes nothing, outside it
\* enters the group and resets current_vertex to the origin; EndVtxs
\* outside a group fails and changes nothing, inside it leaves the group;
\* no other command changes is_in_vtx_group, which is therefore true
\* exactly when the last BeginVtxs or EndVtxs so far is a BeginVtxs; and
\* execute() succeeds only on a list whose BeginVtxs and EndVtxs alternate
\* strictly, starting with BeginVtxs.
C9_GroupProtocol ==
    v_phase = "returned" =>
        /\ \A k \in VSteps :
              LET cmd  == gpu_cmds[k]
                  pre  == VPre(k)
                  post == v_hist[k]
              IN  /\ cmd.op = "BeginVtxs" =>
                        IF pre.is_in_vtx_group
                        THEN ~VStepOk(k) /\ post = pre
                        ELSE /\ VStepOk(k)
                             /\ post.is_in_vtx_group
                             /\ post.current_vertex = [x |-> 0, y |-> 0, z |-> 0]
                             /\ post.vertices = pre.vertices
                  /\ cmd.op = "EndVtxs" =>
                        IF ~pre.is_in_vtx_group
                        THEN ~VStepOk(k) /\ post = pre
                        ELSE /\ VStepOk(k)
                             /\ ~post.is_in_vtx_group
                             /\ post.current_vertex = pre.current_vertex
                             /\ post.vertices = pre.vertices
                  /\ cmd.op \notin GroupOps =>
                        (VStepOk(k) /\ post.is_in_vtx_group = pre.is_in_vtx_group)
                  /\ post.is_in_vtx_group =
                        IF GroupPositions(k) = {}
                        THEN v_start.is_in_vtx_group
                        ELSE gpu_cmds[MaxOf(GroupPositions(k))].op = "BeginVtxs"
        /\ is_in_vtx_group =
              IF v_hist = <<>> THEN v_start.is_in_vtx_group
              ELSE v_hist[Len(v_hist)].is_in_vtx_group
        /\ v_result = "ok" => (Len(v_hist) = Len(gpu_cmds) /\ GroupsAlternate)

\* execute() has succeeded over a list that leaves a group and enters the
\* next one.
C9_Witness ==
    /\ v_phase = "returned"
    /\ v_result = "ok"
    /\ Cardinality(GroupPositions(Len(gpu_cmds))) >= 3
    /\ is_in_vtx_group

\* A vertex position in f32 units from three numbers of whole units.
C10_Pos(x, y, z) == [x |-> x * F32_UNITS, y |-> y * F32_UNITS, z |-> z * F32_UNITS]

\* C10: Vtx16 and Vtx10 replace x, y and z from their parameters; VtxXY,
\* VtxXZ and VtxYZ replace the two named coordinates and keep the third;
\* VtxDiff adds its deltas; each sets current_vertex to the result and
\* appends that one position; every other command appends nothing and,
\* BeginVtxs apart, leaves current_vertex unchanged.  The list BeginVtxs,
\* Vtx16(1,0,0), VtxXY(2,3), VtxDiff(0,0,1), EndVtxs yields (1,0,0),
\* (2,3,0), (2,3,1).
C10_Coordinates ==
    v_phase = "returned" =>
        /\ \A k \in VSteps :
              LET cmd  == gpu_cmds[k]
                  pre  == VPre(k)
                  post == v_hist[k]
                  cur  == pre.current_vertex
                  expected ==
                      CASE cmd.op = "Vtx16" ->
                              [x |-> Fixed1_3_12_to_f32(cmd.x),
                               y |-> Fixed1_3_12_to_f32(cmd.y),
                               z |-> Fixed1_3_12_to_f32(cmd.z)]
                        [] cmd.op = "Vtx10" ->
                              [x |-> Fixed1_3_6_to_f32(cmd.x),
                               y |-> Fixed1_3_6_to_f32(cmd.y),
                               z |-> Fixed1_3_6_to_f32(cmd.z)]
                        [] cmd.op = "VtxXY" ->
                              [x |-> Fixed1_3_12_to_f32(cmd.x),
                               y |-> Fixed1_3_12_to_f32(cmd.y),
                               z |-> cur.z]
                        [] cmd.op = "VtxXZ" ->
                              [x |-> Fixed1_3_12_to_f32(cmd.x),
                               y |-> cur.y,
                               z |-> Fixed1_3_12_to_f32(cmd.z)]
                        [] cmd.op = "VtxYZ" ->
                              [x |-> cur.x,
                               y |-> Fixed1_3_12_to_f32(cmd.y),
                               z |-> Fixed1_3_12_to_f32(cmd.z)]
                        [] cmd.op = "VtxDiff" ->
                              [x |-> cur.x + Fixed1_3_12_to_f32(cmd.x),
                               y |-> cur.y + Fixed1_3_12_to_f32(cmd.y),
                               z |-> cur.z + Fixed1_3_12_to_f32(cmd.z)]
                        [] OTHER -> cur
              IN  IF cmd.op \in {"Vtx16", "Vtx10", "VtxXY", "VtxXZ", "VtxYZ", "VtxDiff"}
                  THEN /\ VStepOk(k)
                       /\ post.current_vertex = expected
                       /\ post.vertices = Append(pre.vertices, expected)
                  ELSE /\ post.vertices = pre.vertices
                       /\ cmd.op # "BeginVtxs" => post.current_vertex = cur
        /\ vertices =
              IF v_hist = <<>> THEN v_start.vertices ELSE v_hist[Len(v_hist)].vertices
        /\ (gpu_cmds = <<BeginVtxs, Vtx16(4096, 0, 0), VtxXY(8192, 12288),
                         VtxDiff(0, 0, 4096), EndVtxs>>
               /\ v_calls = 1) =>
              /\ v_result = "ok"
              /\ vertices = <<C10_Pos(1, 0, 0), C10_Pos(2, 3, 0), C10_Pos(2, 3, 1)>>

\* The scenario's list has been executed once and three positions came out.
C10_Witness ==
    /\ v_phase = "returned"
    /\ v_calls = 1
    /\ Len(gpu_cmds) = 5
    /\ gpu_cmds[3].op = "VtxXY"
    /\ gpu_cmds[4].op = "VtxDiff"
    /\ Len(vertices) = 3
    /\ vertices[3].z = F32_UNITS

----------------------------------------------------------------------------
(* Properties of rebase (SpecRebase).                                       *)

FirstModel == container.mdl[1].models_data[1]

\* Every model the container holds, as <<MDL index, model index>>.
ModelsOf(c) ==
    {<<i, j>> \in (0..(MaxSubfiles - 1)) \X (0..1) :
        i < Len(c.mdl) /\ j < Len(c.mdl[i + 1].models_data)}

\* C1: a rebase (on Container, on an Mdl or on a Model, which rebases its
\* MaterialList) that directly follows the same rebase, with no edit in
\* between, leaves every stored offset, count and size field -- the whole
\* container, whose fields are all that encoding writes -- as it was after
\* the first.
C1_RebaseIdempotent == r_twice => container = r_before

\* C1 happens: after an edit of the first model, Container::rebase moved the
\* model's sections away from where they were decoded, and was called again.
C1_Witness ==
    /\ r_twice
    /\ r_op.kind = "Container"
    /\ r_edits > 0
    /\ Len(container.mdl) > 0
    /\ FirstModel.size # SampleMdl.models_data[1].size
    /\ FirstModel.meshes.mesh_data[1].cmds_len # SampleMdl.models_data[1].meshes.mesh_data[1].cmds_len

\* off is size rounded up to the next multiple of 4.
IsAligned4Of(off, size) == off % 4 = 0 /\ off >= size /\ off < size + 4

C2_Layout(model) ==
    /\ IsAligned4Of(model.render_cmds_offset - 64, BoneList_size(model.bone_list))
    /\ IsAligned4Of(model.materials_offset - model.render_cmds_offset,
                    RenderCommandList_size(model.render_commands))
    /\ IsAligned4Of(model.meshes_offset - model.materials_offset,
                    MaterialList_size(model.materials))
    /\ IsAligned4Of(model.inv_binds_offset - model.meshes_offset,
                    MeshList_size(model.meshes))
    /\ model.size = model.inv_binds_offset
                      + InvBindMatrices_size(model.inv_binds_matrices)
    /\ \A off \in {model.render_cmds_offset, model.materials_offset,
                   model.meshes_offset, model.inv_binds_offset} : off % 4 = 0
    /\ model.render_cmds_offset <= model.materials_offset
    /\ model.materials_offset <= model.meshes_offset
    /\ model.meshes_offset <= model.inv_binds_offset

\* C2: every model that Model::rebase has reached since its last edit has
\* render_cmds_offset = 64 + align4(bone_list.size()), each later section
\* offset = the previous offset + align4(the previous section's size), in the
\* order render commands, materials, meshes, inverse-binds, and size =
\* inv_binds_offset + inv_binds_matrices.size(); the offsets are multiples
\* of 4 and non-decreasing.
C2_SectionLayout ==
    \A m \in ModelsOf(container) \ r_dirty :
        C2_Layout(container.mdl[m[1] + 1].models_data[m[2] + 1])

\* C2 happens: Model::rebase has just laid out the edited first model, whose
\* render command list and mesh list have sizes that are not multiples of 4.
C2_Witness ==
    /\ r_op = [kind |-> "Model", mdl |-> 0, model |-> 0]
    /\ r_dirty = {}
    /\ r_edits > 0
    /\ RenderCommandList_size(FirstModel.render_commands) % 4 # 0
    /\ Len(FirstModel.render_commands) > 3
    /\ Len(FirstModel.meshes.mesh_data[1].render_cmds_list) = 3

\* The size subfile g reports (Mdl::size, Tex::size).
SizeOfSubfile(g) ==
    LET entry == container.sorted_indices[g]
    IN IF entry.file_type = "MDL" THEN container.mdl[entry.local_index + 1].filesize
       ELSE container.tex[entry.local_index + 1].chunk_size

\* C3: after Container::rebase, in arrival order: the first offset is
\* align4(16 + 4n), each later offset is align4(previous offset + previous
\* subfile size), header.filesize = last offset + last subfile size; the
\* offsets are multiples of 4 and strictly increasing, and the subfile byte
\* ranges overlap neither each other nor the offset table.
C3_SubfileLayout ==
    r_op.kind = "Container" =>
        LET n == Len(container.sorted_indices)
            offsets == container.subfile_offsets
        IN /\ Len(offsets) = n
           /\ n > 0 => IsAligned4Of(offsets[1], 16 + 4 * n)
           /\ \A g \in 2..n :
                IsAligned4Of(offsets[g], offsets[g - 1] + SizeOfSubfile(g - 1))
           /\ n > 0 => container.filesize = offsets[n] + SizeOfSubfile(n)
           /\ \A g \in 1..n : offsets[g] % 4 = 0
           /\ \A g \in 2..n : offsets[g - 1] < offsets[g]
           /\ \A g \in 1..n : offsets[g] >= 16 + 4 * n
           /\ \A g \in 1..n : \A h \in (g + 1)..n :
                offsets[g] + SizeOfSubfile(g) <= offsets[h]

----------------------------------------------------------------------------
(* Properties of the GPU command codec and of the Mesh (SpecMesh). *)

\* The number of Nops that bring n commands to a multiple of 4
PadCount(n) == (4 - (n % 4)) % 4

\* The command list of the Mesh followed by its padding Nops
PaddedList == 
    m_mesh.render_cmds_list
      \o [i \in 1..PadCount(Len(m_mesh.render_cmds_list)) |-> GpuNop]

\* C11: for every GpuCommandList, however built (decode, push, extend,
\* clear), write_bytes succeeds and emits the list followed by
\* (4 - len mod 4) mod 4 Nops, and from_bytes on the size() bytes emitted
\* returns exactly the commands of the list followed by those Nops, a
\* multiple of 4 commands, with the same opcodes and parameter values.
C11_PaddingRoundTrip ==
    m_phase = "live" =>
        /\ m_written # NoOutcome => m_written.result = "ok"
        /\ m_written.result = "ok" =>
              Len(m_written.value) = Mesh_size(m_mesh)
        /\ m_reread # NoOutcome =>
              /\ m_reread.result = "ok"
              /\ m_reread.value = PaddedList
              /\ Len(m_reread.value) % 4 = 0

\* The command bytes of the buffer the Mesh was decoded from
InputCommands ==
    SubSeq(m_bytes, m_mesh.cmds_offset + 1, m_mesh.cmds_offset + m_mesh.cmds_len)

\* C12: for every byte string that GpuCommandList::from_bytes accepts,
\* write_bytes of the decoded list reproduces the input byte for byte,
\* the bits of the parameter words the decoder does not interpret included.
C12_ByteRoundTrip ==
    (m_phase = "live" /\ m_fresh /\ m_written # NoOutcome) =>
        /\ m_written.result = "ok"
        /\ WrittenCommands(m_mesh, m_written.value) = InputCommands

\* The cmds_len field (bytes 12..16) of the buffer Mesh::write_bytes wrote
WrittenCmdsLen == U32_value(U32_from_le_bytes(SubSeq(m_written.value, 13, 16)))

\* One opcode byte per command, the padding Nops included, plus 4 bytes per
\* parameter
CountedLength ==
    Len(PaddedList)
      + SumSeq([i \in 1..Len(PaddedList) |->
                  4 * num_params(GpuCommand_op_code(PaddedList[i]))])

\* C15: whenever a Mesh is encoded directly after decode, or after edits of
\* its command list followed by rebase, the cmds_len field written equals
\* GpuCommandList::size(), which is the number of bytes the command list
\* encodes to: one opcode byte per command, the Nop padding to a multiple
\* of 4 commands included, plus 4 bytes per parameter.
C15_CmdsLen ==
    (m_phase = "live" /\ m_written.result = "ok" /\ (m_fresh \/ m_rebased)) =>
        /\ WrittenCmdsLen = GpuCommandList_size(m_mesh.render_cmds_list)
        /\ WrittenCmdsLen = CountedLength
        /\ WrittenCmdsLen = Len(GpuEncode(PaddedList)[1])
        /\ Len(m_written.value) = Mesh_SIZE + WrittenCmdsLen

\* An edited list whose length is no multiple of 4 was rebased, and the Mesh
\* encoded.
C15_Witness ==
    /\ m_phase = "live"
    /\ m_written.result = "ok"
    /\ m_rebased
    /\ ~m_fresh
    /\ Len(m_mesh.render_cmds_list) % 4 # 0

\* A Mesh encoded directly after decode.
C15_WitnessFresh ==
    /\ m_phase = "live"
    /\ m_written.result = "ok"
    /\ m_fresh
    /\ ~m_rebased
    /\ m_mesh.cmds_len > 4

----------------------------------------------------------------------------
(* Properties of the render command codec (SpecCodec). *)

\* The offset in rc_bytes of command k of the decoded list
RECURSIVE OffsetOf(_)
OffsetOf(k) ==
    IF k = 1 THEN 0
    ELSE OffsetOf(k - 1) + RenderCommand_size(rc_list.value[k - 1])

\* Command k of the decoded list is what RenderCommand::from_bytes makes of
\* the size() bytes at its offset, and of one byte less it makes an error
\* or another command
ConsumedIsSize(k) ==
    /\ OffsetOf(k) + RenderCommand_size(rc_list.value[k]) <= Len(rc_bytes)
    /\ RenderCommand_from_bytes(rc_bytes[OffsetOf(k) + 1],
            SubSeq(rc_bytes, OffsetOf(k) + 2,
                   OffsetOf(k) + RenderCommand_size(rc_list.value[k])))
         = <<rc_list.value[k]>>
    /\ RenderCommand_size(rc_list.value[k]) > 1 =>
          RenderCommand_from_bytes(rc_bytes[OffsetOf(k) + 1],
                SubSeq(rc_bytes, OffsetOf(k) + 2,
                       OffsetOf(k) + RenderCommand_size(rc_list.value[k]) - 1))
            # <<rc_list.value[k]>>

\* The buffer holds an End opcode at the offset of a command, the offsets
\* counted from the kinds of the opcodes before it
RECURSIVE EndAt(_)
EndAt(pos) ==
    /\ pos < Len(rc_bytes)
    /\ \/ CommandCode(rc_bytes[pos + 1]) = 1
       \/ /\ RenderCommand_from_bytes(rc_bytes[pos + 1],
                  SubSeq(rc_bytes, pos + 2, Len(rc_bytes))) # <<>>
          /\ EndAt(pos + RenderCommand_size(
                  RenderCommand_from_bytes(rc_bytes[pos + 1],
                      SubSeq(rc_bytes, pos + 2, Len(rc_bytes)))[1]))

\* C13: RenderCommandList::from_bytes stops at the first End: on success
\* the list ends with End and holds no other End, and the size() of each
\* command is the number of bytes decoded for it; when the buffer is
\* exhausted before an End is decoded, or a payload is cut, the result is
\* an error and never a list without End.
C13_StopsAtEnd ==
    rc_list.result \notin {"none", "idle"} =>
        /\ rc_list.result \in {"ok", "err"}
        /\ rc_list.result = "ok" =>
              /\ rc_list.value # <<>>
              /\ rc_list.value[Len(rc_list.value)] = End
              /\ \A k \in 1..(Len(rc_list.value) - 1) : rc_list.value[k].op # "End"
              /\ \A k \in 1..Len(rc_list.value) : ConsumedIsSize(k)
        /\ ~EndAt(0) => rc_list.result = "err"

\* A stream of a CalculateSkinningEquation, a Mul of subtype 0x60 and an End
\* with one more byte behind it was decoded.
C13_Witness ==
    /\ rc_list.result = "ok"
    /\ Len(rc_list.value) = 3
    /\ rc_list.value[1].op = "CalculateSkinningEquation"
    /\ rc_list.value[2].op = "MulCurrentMatrixWithBoneMatrix"
    /\ rc_list.value[2].subtype = 96
    /\ Len(rc_bytes) > RenderCommandList_size(rc_list.value)

\* A stream of two commands without an End was refused.
C13_WitnessExhausted ==
    /\ rc_list.result = "err"
    /\ rc_bytes = <<3, 5, 5, 0>>

\* C14: for every byte string RenderCommandList::from_bytes accepts,
\* write_bytes of the decoded list into a buffer of exactly size() bytes
\* succeeds and reproduces the first size() input bytes.
C14_ByteRoundTrip ==
    rc_written # NoOutcome =>
        /\ rc_written.result = "ok"
        /\ rc_written.value =
              SubSeq(rc_bytes, 1, RenderCommandList_size(rc_list.value))

----------------------------------------------------------------------------
(* Properties of the MaterialIdxList (SpecIdx). *)

\* The offset and the count of the record in the buffer
RecordOffset == ml_bytes[ml_pos + 1] + 256 * ml_bytes[ml_pos + 2]
RecordCount == ml_bytes[ml_pos + 3]

\* C17: a MaterialIdxList with count c and offset O decodes its c index
\* bytes from absolute offset O of the MaterialList buffer and encodes them
\* at the same absolute offset; decoding succeeds whenever O + c does not
\* exceed the length of the buffer, wherever the 4-byte record lies in it.
C17_AbsoluteIndices ==
    /\ (idx_list.result \notin {"none", "idle"}
            /\ RecordOffset + RecordCount <= Len(ml_bytes)) =>
          /\ idx_list.result = "ok"
          /\ idx_list.value.indices =
                SubSeq(ml_bytes, RecordOffset + 1, RecordOffset + RecordCount)
    /\ (idx_list.result = "ok" /\ idx_written # NoOutcome) =>
          /\ idx_written.result = "ok"
          /\ SubSeq(idx_written.value, RecordOffset + 1, RecordOffset + RecordCount)
                = idx_list.value.indices

----------------------------------------------------------------------------
(* Out-of-range indices of MulCurrentMatrixWithBoneMatrix (SpecExec). *)

\* The stack slots the payload of a Mul command carries.
CarriedSlots(cmd) ==
    { Unwrap(p) : p \in { q \in {cmd.param_3, cmd.param_4} : IsSome(q) } }

\* C19: a Mul command whose bone index is not below the bone count, or
\* whose payload carries a load or store slot of 31 or more, makes execute()
\* return Err, and the matrix stack and the tracker keep their 31 entries.
C19_IndexErrors ==
    (/\ LastIs("MulCurrentMatrixWithBoneMatrix")
     /\ x_last.cmd.subtype \in {0, 32, 64, 96}
     /\ \/ x_last.cmd.bone_index >= BoneLen(bone_list)
        \/ \E slot \in CarriedSlots(x_last.cmd) : slot >= STACK_LEN)
    => /\ x_last.status = "err"
       /\ DOMAIN matrix_stack = Slots
       /\ DOMAIN loaded_bones_in_matrix = Slots

----------------------------------------------------------------------------
(* The layout MaterialList::rebase leaves (SpecLayout). *)

\* The index bytes of the pairings before pairing i of a list
IndicesBefore(pairings, i) ==
    SumSeq([k \in 1..(i - 1) |-> Len(pairings.data[k].indices)])

\* The index bytes of all the pairings of a list
IndicesOf(pairings) == IndicesBefore(pairings, Len(pairings.data) + 1)

\* The pairings' indices lie one after the other in list order from start on
ContiguousFrom(pairings, start) ==
    \A i \in 1..Len(pairings.data) :
        /\ pairings.data[i].offset = start + IndicesBefore(pairings, i)
        /\ pairings.data[i].count = Len(pairings.data[i].indices)

\* The end of the texture section, of the palette section, of the indices
TextureSectionEnd ==
    mat_list.texture_pairings_offset + NameList_size(mat_list.texture_pairing_list)

PaletteSectionEnd ==
    mat_list.palette_pairings_offset + NameList_size(mat_list.palette_pairing_list)

IndicesEnd ==
    PaletteSectionEnd + IndicesOf(mat_list.texture_pairing_list)
                      + IndicesOf(mat_list.palette_pairing_list)

\* The end of the last material record; 0 where the list has no material
LastMaterialEnd ==
    LET data == mat_list.materials.data
    IN IF Len(data) = 0 THEN 0 ELSE data[Len(data)] + Material_SIZE

GreatestOf(values) == CHOOSE v \in values : \A w \in values : w <= v

\* C16: after MaterialList::rebase the texture pairing list begins at
\* 4 + materials.size(), the palette pairing list where the texture pairing
\* list ends, the indices of the texture pairings and then of the palette
\* pairings follow in list order with no gap, each pairing counting its own
\* indices, material record i lies 44 * i bytes after the 4-byte-aligned end
\* of the indices, and size() is the greatest of the end of the last
\* material, of the texture section and of the palette section.
C16_RebasedLayout ==
    mat_phase = "rebased" =>
        /\ mat_list.texture_pairings_offset = 4 + NameList_size(mat_list.materials)
        /\ mat_list.palette_pairings_offset = TextureSectionEnd
        /\ ContiguousFrom(mat_list.texture_pairing_list, PaletteSectionEnd)
        /\ ContiguousFrom(mat_list.palette_pairing_list,
                          PaletteSectionEnd + IndicesOf(mat_list.texture_pairing_list))
        /\ \A i \in 1..Len(mat_list.materials.data) :
                mat_list.materials.data[i] =
                    get_4_byte_alignment(IndicesEnd) + Material_SIZE * (i - 1)
        /\ MaterialList_size(mat_list) =
                GreatestOf({LastMaterialEnd, TextureSectionEnd, PaletteSectionEnd})

\* A rebased list of two materials, two texture pairings and a palette
\* pairing, all with indices, whose indices end off a 4-byte boundary
C16_Witness ==
    /\ mat_phase = "rebased"
    /\ Len(mat_list.materials.data) = 2
    /\ Len(mat_list.texture_pairing_list.data) = 2
    /\ \A i \in 1..2 : Len(mat_list.texture_pairing_list.data[i].indices) > 0
    /\ Len(mat_list.palette_pairing_list.data) >= 1
    /\ Len(mat_list.palette_pairing_list.data[1].indices) > 0
    /\ IndicesEnd % 4 # 0

\* A rebased list with no material and with indices
C16_WitnessNoMaterial ==
    /\ mat_phase = "rebased"
    /\ Len(mat_list.materials.data) = 0
    /\ IndicesEnd > PaletteSectionEnd

----------------------------------------------------------------------------
(* The bone mapping of MeshCommandGenerator::new (SpecGen). *)

GenReturned == gen_result.result \in {"ok", "err", "panic"}

\* The authoring bone indices, and those with no equally named target bone
AuthoringBones == 0..(Len(gen_vertex_bones) - 1)

NamedIn(i) ==
    { j \in 0..(Len(gen_command_bones) - 1) :
        gen_command_bones[j + 1] = <<gen_vertex_bones[i + 1]>> }

\* The authoring bone indices some vertex of some primitive carries
BonesInUse ==
    { id \in 0..MaxBoneNames + 1 :
        \E p \in 1..Len(gen_primitives) :
        \E v \in 1..Len(gen_primitives[p]) : gen_primitives[p][v] = id }

C20_WitnessErr ==
    /\ gen_result.result = "err"
    /\ BonesInUse # {}
    /\ BonesInUse \subseteq AuthoringBones

----------------------------------------------------------------------------
(* The errors of Container::from_bytes (SpecDecode). *)

DecodeReturned == ct_result.result \notin {"none", "idle"}

\* The number of subfiles the header of the buffer states, and the offsets
\* of the table that follows it
StatedSubfiles == U16At(ct_bytes, 14)

TableOffset(i) == U32At(ct_bytes, Header_SIZE + 4 * (i - 1))

\* The offset leaves no 4 bytes inside the buffer
LeavesNoStamp(offset) == offset[2] > 0 \/ offset[1] + 4 > Len(ct_bytes)

KnownStamps == {StampMDL, StampTEX, StampJNT, StampPAT, StampSRT}

StampAt(offset) == SubSeq(ct_bytes, offset[1] + 1, offset[1] + 4)

\* The buffer is too short for its header or its offset table, or one of
\* its offsets leaves no stamp inside it or points at an unknown stamp
MalformedBuffer ==
    \/ Len(ct_bytes) < 16
    \/ Len(ct_bytes) < 16 + 4 * StatedSubfiles
    \/ \E i \in 1..StatedSubfiles :
            \/ LeavesNoStamp(TableOffset(i))
            \/ StampAt(TableOffset(i)) \notin KnownStamps

\* C18: from_bytes returns an error, and neither aborts nor reads out of
\* bounds nor returns a Container, whenever the buffer is shorter than the
\* 16-byte header, shorter than 16 + 4 * num_subfiles, or holds a subfile
\* offset that leaves no 4 bytes inside the buffer or whose stamp no type has.
C18_MalformedIsErr ==
    (DecodeReturned /\ MalformedBuffer) => ct_result = Outcome("err", <<>>)

----------------------------------------------------------------------------
(* The byte ranges MaterialList::write_bytes writes (SpecLayout). *)

\* The ranges [from, to) of the buffer that write_bytes writes, in the order
\* of the source: the two offsets, the materials name list, the material
\* records, the two pairing name lists, the indices of each pairing
WrittenRanges ==
    LET materials == mat_list.materials
        textures == mat_list.texture_pairing_list
        palettes == mat_list.palette_pairing_list
    IN  << <<0, 4>>, <<4, 4 + NameList_size(materials)>> >>
        \o [i \in 1..Len(materials.data) |->
                <<materials.data[i], materials.data[i] + Material_SIZE>>]
        \o << <<mat_list.texture_pairings_offset, TextureSectionEnd>>,
              <<mat_list.palette_pairings_offset, PaletteSectionEnd>> >>
        \o [i \in 1..Len(textures.data) |->
                <<textures.data[i].offset,
                  textures.data[i].offset + Len(textures.data[i].indices)>>]
        \o [i \in 1..Len(palettes.data) |->
                <<palettes.data[i].offset,
                  palettes.data[i].offset + Len(palettes.data[i].indices)>>]

DisjointRanges(a, b) == a[1] = a[2] \/ b[1] = b[2] \/ a[2] <= b[1] \/ b[2] <= a[1]

\* C30: after MaterialList::rebase every byte range that write_bytes writes
\* lies inside [0, size()) and the ranges are pairwise disjoint, for any
\* number of materials and pairings, zero materials included.
C30_RangesInsideSize ==
    mat_phase = "rebased" =>
        /\ \A i \in 1..Len(WrittenRanges) :
                /\ 0 <= WrittenRanges[i][1]
                /\ WrittenRanges[i][2] <= MaterialList_size(mat_list)
        /\ \A i, j \in 1..Len(WrittenRanges) :
                i # j => DisjointRanges(WrittenRanges[i], WrittenRanges[j])

\* The same for the lists that hold a material
C30_WithMaterials ==
    (mat_phase = "rebased" /\ Len(mat_list.materials.data) > 0) =>
        /\ \A i \in 1..Len(WrittenRanges) :
                /\ 0 <= WrittenRanges[i][1]
                /\ WrittenRanges[i][2] <= MaterialList_size(mat_list)
        /\ \A i, j \in 1..Len(WrittenRanges) :
                i # j => DisjointRanges(WrittenRanges[i], WrittenRanges[j])

----------------------------------------------------------------------------
(* The alignment functions (SpecAlign). *)

\* a >= b on usize, from the most significant limb down
RECURSIVE AtLeast(_, _)
AtLeast(a, b) ==
    IF a = <<>> THEN TRUE
    ELSE LET n == Len(a)
         IN  IF a[n] # b[n] THEN a[n] > b[n]
             ELSE AtLeast(SubSeq(a, 1, n - 1), SubSeq(b, 1, n - 1))

\* r is the least multiple of the boundary that is at least a: it is a
\* multiple, it is not below a, and it is less than a boundary above a
LeastMultipleFrom(r, a, boundary) ==
    /\ r[1] % boundary = 0
    /\ AtLeast(r, a)
    /\ \E d \in 0..(boundary - 1) : r = wrapping_add(a, d)

\* a + boundary - 1 is a usize
FitsAligned(a, boundary) == AtLeast(wrapping_add(a, boundary - 1), a)

\* C24: get_4_byte_alignment(a) is the least multiple of 4 that is >= a and
\* get_16_byte_alignment(a) the least multiple of 16 that is >= a, for every
\* a >= 0, and both functions are idempotent.
C24_LeastMultiple ==
    al_boundary # 0 =>
        /\ LeastMultipleFrom(al_once, al_a, al_boundary)
        /\ al_twice # <<>> => al_twice = al_once

\* C24, amended: the same for every a for which a + 3 (a + 15) does not pass
\* usize::MAX; for the 3 (15) greatest values of usize the result wraps to
\* 0. Both functions are idempotent on all of usize. On the arguments of
\* the list {0,1,2,3,4,5,8} the results are {0,4,4,4,4,8,8}.
C24_LeastMultipleThatFits ==
    al_boundary # 0 =>
        /\ FitsAligned(al_a, al_boundary) =>
                LeastMultipleFrom(al_once, al_a, al_boundary)
        /\ ~FitsAligned(al_a, al_boundary) => al_once = Usize_of(0)
        /\ al_twice # <<>> => al_twice = al_once
        /\ al_boundary = 4 =>
                \A n \in {0, 1, 2, 3, 4, 5, 8} :
                    al_a = Usize_of(n) =>
                        al_once = Usize_of(CASE n = 0 -> 0 [] n \in 1..4 -> 4
                                                [] OTHER -> 8)
        /\ (al_boundary = 4 /\ al_a[2] = 0) =>
                al_once = Usize_of(get_4_byte_alignment(al_a[1]))

\* The alignment to 4 of 5 was taken, twice
C24_Witness ==
    /\ al_boundary = 4
    /\ al_a = Usize_of(5)
    /\ al_twice = Usize_of(8)

\* The alignment to 16 of usize::MAX was taken
C24_WitnessWrapped ==
    /\ al_boundary = 16
    /\ al_a = Usize_below_max(0)
    /\ al_once = Usize_of(0)

----------------------------------------------------------------------------
(* Fixed-point arithmetic and from_i16 (SpecFixed). *)

\* The sum or the difference the operation of the state stands for
Combined(a, b) == IF fx_op = "add" THEN a + b ELSE a - b

\* out is the operation on a and b modulo 2^bits, in the signed range
WrapsTo(out, a, b, bits) ==
    /\ out \in (0 - 2 ^ (bits - 1))..(2 ^ (bits - 1) - 1)
    /\ (out - Combined(a, b)) % (2 ^ bits) = 0

\* The same for i32, half by half: the carry or the borrow of the low halves
\* goes into the high halves and the one of the high halves is dropped
WrapsToI32(out, a, b) ==
    LET low == Combined(a[1], b[1])
        carry == IF low > 65535 THEN 1 ELSE IF low < 0 THEN -1 ELSE 0
    IN  /\ out[1] \in 0..65535 /\ (out[1] - low) % 65536 = 0
        /\ out[2] \in 0..65535 /\ (out[2] - (Combined(a[2], b[2]) + carry)) % 65536 = 0

\* The ends of the range of the variant of the state, and its raw 1
RawEnds ==
    CASE fx_variant \in {"1.3.12", "1.11.4"} ->
            [min |-> -32768, max |-> 32767, one |-> 1]
      [] fx_variant = "1.19.12" ->
            [min |-> <<0, 32768>>, max |-> <<65535, 32767>>, one |-> <<1, 0>>]
      [] fx_variant = "1.0.9" ->
            [min |-> -512, max |-> 511, one |-> 1]

\* C22: fixed-point overflow wraps around. Adding raw 1 to the largest value
\* of a variant gives the smallest and subtracting it from the smallest
\* gives the largest, and add and sub are the integer operations modulo
\* 2^16 (1.3.12, 1.11.4), 2^32 (1.19.12) and 2^10 (1.0.9).
C22_WrapsAround ==
    fx_op \in {"add", "sub"} =>
        /\ (fx_op = "add" /\ fx_a = RawEnds.max /\ fx_b = RawEnds.one) =>
                fx_out = RawEnds.min
        /\ (fx_op = "sub" /\ fx_a = RawEnds.min /\ fx_b = RawEnds.one) =>
                fx_out = RawEnds.max
        /\ CASE fx_variant \in {"1.3.12", "1.11.4"} -> WrapsTo(fx_out, fx_a, fx_b, 16)
             [] fx_variant = "1.19.12" -> WrapsToI32(fx_out, fx_a, fx_b)
             [] fx_variant = "1.0.9" -> WrapsTo(fx_out, fx_a, fx_b, 10)

\* Raw 0x1FF + raw 1 was taken in 1.0.9
C22_Witness ==
    /\ fx_op = "add"
    /\ fx_variant = "1.0.9"
    /\ fx_a = 511 /\ fx_b = 1
    /\ fx_out = -512

\* i32::MIN - 1 was taken in 1.19.12
C22_WitnessI32 ==
    /\ fx_op = "sub"
    /\ fx_variant = "1.19.12"
    /\ fx_a = <<0, 32768>> /\ fx_b = <<1, 0>>
    /\ fx_out = <<65535, 32767>>

\* The stored value is the 10-bit field of the i16, sign-extended from bit 9
SignExtended10(out, raw) ==
    /\ out \in -512..511
    /\ (out - raw) % 1024 = 0

\* C23: in 1.0.9 and in 1.3.6 from_i16(raw) masks raw to 10 bits and
\* sign-extends from bit 9: the stored value is congruent to raw modulo
\* 2^10 and lies in -512..511, and to_i16() & 0x3FF is the 10-bit field.
C23_TenBitSignExtension ==
    fx_op = "from_i16" =>
        /\ SignExtended10(fx_out, fx_a)
        /\ (fx_out % 65536) % 1024 = (fx_a % 65536) % 1024
        /\ fx_a = 512 => fx_out = -512
        /\ fx_a = 511 => fx_out = 511

\* The part of C23 about 1.0.9
C23_Fixed1_0_9 ==
    (fx_op = "from_i16" /\ fx_variant = "1.0.9") =>
        /\ SignExtended10(fx_out, fx_a)
        /\ (fx_out % 65536) % 1024 = (fx_a % 65536) % 1024
        /\ fx_a = 512 => fx_out = -512
        /\ fx_a = 511 => fx_out = 511

\* The Mesh decoded from a buffer whose command stream is the opcode word
\* Color, VtxDiff, MtxRestore with its three parameter words
DecodedDiffStream ==
    /\ m_phase = "live" /\ m_fresh
    /\ Len(m_bytes) = Mesh_SIZE + 16
    /\ SubSeq(m_bytes, Mesh_SIZE + 1, Mesh_SIZE + 4) = <<32, 40, 20, 0>>

\* The parameter word of the VtxDiff of that stream
DiffWord == SubSeq(m_bytes, Mesh_SIZE + 9, Mesh_SIZE + 12)

\* The 10-bit field at shift of the VtxDiff word
DiffField(shift) == WordField(DiffWord, shift, 10)

\* The positions the extractor is at when the VtxDiff arrives
DiffStarts == { Position(0, 0, 0), Position(4096, -2048, 8192) }

\* The decoded field is the two's-complement value of the 10 bits of the
\* word, and a field with bit 9 set moves the coordinate down
SignedDelta(field, value, before, after) ==
    /\ value = (IF field >= 512 THEN field - 1024 ELSE field)
    /\ field >= 512 => after < before

\* C28: each of the three 10-bit fields of a decoded VtxDiff parameter word
\* is a two's-complement signed value: a field with bit 9 set is a negative
\* delta, and the coordinate the extractor computes from it is smaller than
\* that of the previous current_vertex.
C28_SignedDeltas ==
    DecodedDiffStream =>
        LET params == m_mesh.render_cmds_list[2]
        IN  /\ params.op = "VtxDiff"
            /\ \A current \in DiffStarts :
                  LET after == VtxDiffPosition(current, params)
                  IN  /\ SignedDelta(DiffField(0), params.x, current.x, after.x)
                      /\ SignedDelta(DiffField(10), params.y, current.y, after.y)
                      /\ SignedDelta(DiffField(20), params.z, current.z, after.z)

\* The fields without bit 9 are decoded as the claim says
C28_PositiveDeltas ==
    DecodedDiffStream =>
        LET params == m_mesh.render_cmds_list[2]
        IN  /\ params.op = "VtxDiff"
            /\ DiffField(0) < 512 => params.x = DiffField(0)
            /\ DiffField(10) < 512 => params.y = DiffField(10)
            /\ DiffField(20) < 512 => params.z = DiffField(20)

\* The buffer holds a Mesh header whose command region lies inside it
CommandRegionInside ==
    /\ m_phase \in {"live", "failed"}
    /\ Len(m_bytes) >= Mesh_SIZE
    /\ m_bytes[9] = Mesh_SIZE /\ SubSeq(m_bytes, 10, 12) = <<0, 0, 0>>
    /\ SubSeq(m_bytes, 14, 16) = <<0, 0, 0>>
    /\ Mesh_SIZE + m_bytes[13] <= Len(m_bytes)

\* The bytes handed to GpuCommandList::from_bytes
CommandRegion == SubSeq(m_bytes, Mesh_SIZE + 1, Mesh_SIZE + m_bytes[13])

\* One of the opcodes of the first word is unassigned
UnassignedOpcode(stream) ==
    /\ Len(stream) >= 4
    /\ \E i \in 1..4 : num_params(stream[i]) = -1

\* The parameter words of the first opcode word extend past the end
ParametersCut(stream) ==
    /\ Len(stream) >= 4
    /\ Len(stream) < 4 + 4 * WordsOf(SubSeq(stream, 1, 4))

\* The stream ends inside a group of 4 opcode bytes
OpcodeWordCut(stream) == Len(stream) % 4 # 0

MalformedStream(stream) ==
    \/ OpcodeWordCut(stream)
    \/ ParametersCut(stream)
    \/ UnassignedOpcode(stream)

\* C27: GpuCommandList::from_bytes returns an error, and neither aborts nor
\* reads outside the buffer, for every malformed byte string: one that ends
\* inside a group of 4 opcode bytes, one whose parameter words extend past
\* the end, one with an unassigned opcode; no command list is returned.
C27_MalformedIsErr ==
    (CommandRegionInside /\ MalformedStream(CommandRegion)) =>
        /\ m_result = "err"
        /\ m_phase = "failed"
        /\ m_mesh = <<>>

\* No malformed stream yields a command list, and a stream shorter than a
\* word or with an unassigned opcode in front of any cut yields Err
C27_NoListFromMalformed ==
    (CommandRegionInside /\ MalformedStream(CommandRegion)) =>
        /\ m_phase = "failed"
        /\ m_mesh = <<>>
        /\ Len(CommandRegion) < 4 => m_result = "err"
        /\ (Len(CommandRegion) >= 4 /\ num_params(CommandRegion[1]) = -1)
              => m_result = "err"

\* A buffer of len bytes, each holding a value no command of the model writes
Untouched(len) == [i \in 1..len |-> 238]

\* RenderCommand::write_bytes of cmd on a buffer of len bytes succeeds,
\* writes buffer[0..size()) and leaves the bytes from size() on as they were
WritesOwnBytesOnly(cmd, len) ==
    LET written == RenderCommand_write_bytes(cmd, Untouched(len), 0)
    IN  /\ written # <<>>
        /\ \A i \in 1..len :
              i > RenderCommand_size(cmd) => written[1][i] = 238

\* C29: RenderCommand::write_bytes succeeds on any buffer of at least size()
\* bytes for every kind of command, Scale and Nop included, and changes no
\* byte at an index >= size(); hence RenderCommandList::write_bytes succeeds
\* on a buffer of exactly RenderCommandList::size() bytes.
C29_WritesExactBuffer ==
    rc_written # NoOutcome =>
        /\ rc_written.result = "ok"
        /\ Len(rc_written.value) = RenderCommandList_size(rc_list.value)
        /\ \A k \in 1..Len(rc_list.value) :
              \A extra \in 0..2 :
                 WritesOwnBytesOnly(rc_list.value[k],
                                    RenderCommand_size(rc_list.value[k]) + extra)

\* The claim for the commands other than Scale, and for the lists that do
\* not end in a Scale
C29_ExceptScale ==
    rc_written # NoOutcome =>
        /\ \A k \in 1..Len(rc_list.value) :
              rc_list.value[k].op # "Scale" =>
                 \A extra \in 0..2 :
                    WritesOwnBytesOnly(rc_list.value[k],
                                       RenderCommand_size(rc_list.value[k]) + extra)
        /\ (rc_list.value = <<>>
               \/ rc_list.value[Len(rc_list.value)].op # "Scale")
              => /\ rc_written.result = "ok"
                 /\ Len(rc_written.value) = RenderCommandList_size(rc_list.value)

\* The indices a write stored a byte at
StoredAt(stores) == { stores[i][1] : i \in 1..Len(stores) }

\* The optional slot bytes a Mul holds
PresentSlots(data) == Len(data.param_3) + Len(data.param_4)

\* The size of the command as its content gives it
ContentSize(cmd) ==
    IF cmd.op = "CalculateSkinningEquation" THEN 1 + 2 + 3 * Len(cmd.terms)
    ELSE 1 + 3 + PresentSlots(cmd)

\* C26: after public fields are edited RenderCommand::size() is
\* 1 + 2 + 3 * terms.len() for CalculateSkinningEquation and
\* 1 + 3 + (number of present param_3 / param_4 bytes) for
\* MulCurrentMatrixWithBoneMatrix, which is exactly the number of bytes
\* write_bytes emits for the command.
C26_SizeIsBytesWritten ==
    sz_cmd # <<>> =>
        /\ RenderCommand_size(sz_cmd[1]) = ContentSize(sz_cmd[1])
        /\ sz_written # NoOutcome =>
              /\ sz_written.result = "ok"
              /\ StoredAt(sz_written.value)
                    = 0..(RenderCommand_size(sz_cmd[1]) - 1)

\* The claim for a command as from_bytes returns it
C26_SizeOfDecoded ==
    (sz_cmd # <<>> /\ sz_edits = 0) =>
        /\ RenderCommand_size(sz_cmd[1]) = ContentSize(sz_cmd[1])
        /\ sz_written # NoOutcome =>
              /\ sz_written.result = "ok"
              /\ StoredAt(sz_written.value)
                    = 0..(RenderCommand_size(sz_cmd[1]) - 1)

\* The encoded regions of mesh i: its header and its command bytes
HeaderRegion(i) ==
    [start |-> msl_list.meshes.data[i],
     end |-> msl_list.meshes.data[i] + Mesh_SIZE]

CommandsRegion(i) ==
    [start |-> msl_list.meshes.data[i] + msl_list.mesh_data[i].cmds_offset,
     end |-> msl_list.meshes.data[i] + msl_list.mesh_data[i].cmds_offset
               + GpuCommandList_size(msl_list.mesh_data[i].render_cmds_list)]

RegionsOf(i) == { HeaderRegion(i), CommandsRegion(i) }

Apart(a, b) == a.end <= b.start \/ b.end <= a.start \/ a.start = a.end
                 \/ b.start = b.end

\* The regions of distinct meshes do not overlap and lie inside the section
MeshRegionsLaidOut ==
    /\ \A i, j \in 1..Len(msl_list.mesh_data) :
          i # j => \A a \in RegionsOf(i), b \in RegionsOf(j) : Apart(a, b)
    /\ \A i \in 1..Len(msl_list.mesh_data) :
          \A a \in RegionsOf(i) :
             a.start >= 0 /\ a.end <= MeshList_size(msl_list)

\* C25: after an edit that changes the encoded length of a mesh's GPU
\* command list (push, extend, clear) followed by rebase, the mesh offset
\* table and each mesh's cmds_offset place the header and the command bytes
\* of distinct meshes so that they do not overlap, inside
\* [0, MeshList.size()).
C25_RegionsDisjoint ==
    msl_op = "rebase" => MeshRegionsLaidOut

\* The decoded list is laid out so, and rebase keeps it so when no command
\* list has been edited; after a rebase every cmds_len is the encoded length
C25_UneditedLaidOut ==
    /\ (msl_op \in {"none", "rebase"} /\ msl_edits = 0) => MeshRegionsLaidOut
    /\ msl_op = "rebase" =>
          \A i \in 1..Len(msl_list.mesh_data) :
             msl_list.mesh_data[i].cmds_len
               = GpuCommandList_size(msl_list.mesh_data[i].render_cmds_list)

----------------------------------------------------------------------------
(* Properties of generate_commands (SpecTri). *)

\* The triangles of the input: for each primitive, in order, the vertices
\* its indices name three at a time
InputTriangles ==
    LET prims == tg_input.primitives
        at(p, k) == prims[p].vertices[prims[p].indices[k] + 1]
    IN  Flatten([p \in 1..Len(prims) |->
                    [n \in 1..(Len(prims[p].indices) \div 3) |->
                        <<at(p, 3 * n - 2), at(p, 3 * n - 1), at(p, 3 * n)>>]])

OneBone(corners) ==
    Cardinality({ corners[k].bone_id : k \in 1..3 }) = 1

\* The bones with single-bone triangles, the triangles of one of them, and
\* the mixed-bone triangles
BonesOfRuns == { t[1].bone_id : t \in { InputTriangles[i] : i \in
                    { k \in 1..Len(InputTriangles) : OneBone(InputTriangles[k]) } } }

TrianglesOfBone(b) ==
    SelectSeq(InputTriangles, LAMBDA t : OneBone(t) /\ t[1].bone_id = b)

MixedTriangles == SelectSeq(InputTriangles, LAMBDA t : ~OneBone(t))

\* The command bone of a vertex bone, as new() mapped it
MappedBone(b) == U32_of(tg_mapping.value[b])

\* The TexCoord and Vtx16 of the corners of the triangles, in order
CornerCommands(triangles) ==
    Flatten([i \in 1..(3 * Len(triangles)) |->
        VertexCommands(triangles[((i - 1) \div 3) + 1][((i - 1) % 3) + 1],
                       tg_input.texture_size)])

\* The positions of the commands of one kind, and the p-th of them
PositionsOf(cmds, kind) == { i \in 1..Len(cmds) : cmds[i].op = kind }

NthOf(cmds, kind, n) ==
    CHOOSE i \in PositionsOf(cmds, kind) :
        Cardinality({ j \in PositionsOf(cmds, kind) : j < i }) = n - 1

\* The run that begins at position start: up to its EndVtxs
RunAt(cmds, start) ==
    SubSeq(cmds, start,
           CHOOSE e \in start..Len(cmds) :
              /\ cmds[e].op = "EndVtxs"
              /\ \A j \in start..(e - 1) : cmds[j].op # "EndVtxs")

\* The commands are a concatenation of runs BeginVtxs(TRIANGLE), MtxRestore,
\* then TexCoord immediately followed by its Vtx16 for every vertex, a
\* MtxRestore only in front of a TexCoord, then EndVtxs
ConcatenationOfRuns(cmds) ==
    /\ cmds # <<>> => cmds[1].op = "BeginVtxs" /\ cmds[Len(cmds)].op = "EndVtxs"
    /\ \A i \in 1..Len(cmds) :
          CASE cmds[i].op = "BeginVtxs" ->
                  /\ cmds[i].primitive_type = 0
                  /\ i = 1 \/ cmds[i - 1].op = "EndVtxs"
                  /\ cmds[i + 1].op = "MtxRestore"
            [] cmds[i].op = "MtxRestore" ->
                  /\ cmds[i - 1].op \in {"BeginVtxs", "Vtx16"}
                  /\ cmds[i + 1].op = "TexCoord"
            [] cmds[i].op = "TexCoord" -> cmds[i + 1].op = "Vtx16"
            [] cmds[i].op = "Vtx16" -> cmds[i - 1].op = "TexCoord"
            [] cmds[i].op = "EndVtxs" ->
                  /\ cmds[i - 1].op \in {"Vtx16"}
                  /\ i = Len(cmds) \/ cmds[i + 1].op = "BeginVtxs"
            [] OTHER -> FALSE

\* The run of a bone with single-bone triangles: one MtxRestore, to the
\* command bone of the bone, and all its triangles
RunOfBone(b) ==
    <<BeginVtxs, MtxRestoreCmd(MappedBone(b))>>
      \o CornerCommands(TrianglesOfBone(b)) \o <<EndVtxs>>

\* The run of the mixed-bone triangles: all of them, and a MtxRestore in
\* front of a vertex exactly when its command bone is not that of the
\* vertex before it
IsMixedRun(run) ==
    LET corners == Flatten(MixedTriangles)
        mapped(j) == MappedBone(corners[j].bone_id)
    IN  /\ run[2] = MtxRestoreCmd(mapped(1))
        /\ SelectSeq(run, LAMBDA c : c.op \in {"TexCoord", "Vtx16"})
              = CornerCommands(MixedTriangles)
        /\ NthOf(run, "TexCoord", 1) = 3
        /\ \A j \in 2..Len(corners) :
              LET before == run[NthOf(run, "TexCoord", j) - 1]
              IN  /\ (before.op = "MtxRestore") <=> (mapped(j) # mapped(j - 1))
                  /\ before.op = "MtxRestore" => before.index = mapped(j)

\* C21: the output of generate_commands is a concatenation of runs, each
\* BeginVtxs(TRIANGLE), MtxRestore(b), a TexCoord immediately followed by its
\* Vtx16 for every triangle vertex, EndVtxs: one run for every bone that has
\* single-bone triangles, holding all of them and no further MtxRestore,
\* then at most one run of all mixed-bone triangles in which a MtxRestore
\* precedes a vertex exactly when its mapped bone differs from that of the
\* vertex before. It has 3 Vtx16 per input triangle, its BeginVtxs and
\* EndVtxs are balanced and never nested, and the vertex extractor accepts
\* it without error.
C21_RunsOfTriangles ==
    tg_commands.result = "ok" =>
        LET cmds == tg_commands.value
            starts == PositionsOf(cmds, "BeginVtxs")
            first == { i \in starts :
                         Cardinality({ j \in starts : j < i })
                           < Cardinality(BonesOfRuns) }
        IN  /\ ConcatenationOfRuns(cmds)
            /\ Cardinality(PositionsOf(cmds, "Vtx16")) = 3 * Len(InputTriangles)
            /\ Cardinality(starts) = Cardinality(PositionsOf(cmds, "EndVtxs"))
            /\ Cardinality(starts)
                  = Cardinality(BonesOfRuns)
                      + (IF MixedTriangles = <<>> THEN 0 ELSE 1)
            /\ \E run_of \in [BonesOfRuns -> first] :
                  /\ \A a, b \in BonesOfRuns : a # b => run_of[a] # run_of[b]
                  /\ \A b \in BonesOfRuns : RunAt(cmds, run_of[b]) = RunOfBone(b)
            /\ MixedTriangles # <<>> =>
                  IsMixedRun(RunAt(cmds,
                      CHOOSE i \in starts : \A j \in starts : j <= i))
            /\ tg_extract # NoOutcome =>
                  /\ tg_extract.result = "ok"
                  /\ Len(tg_extract.value) = 3 * Len(InputTriangles)

\* The extractor has accepted an output of a run for each of two bones and
\* a mixed run with a MtxRestore between two of its vertices
C21_Witness ==
    /\ tg_extract.result = "ok"
    /\ Cardinality(PositionsOf(tg_commands.value, "BeginVtxs")) = 3
    /\ Cardinality(PositionsOf(tg_commands.value, "MtxRestore")) > 3

====
